---- MODULE Spec2Model ----
(***************************************************************************)
(* REX rule engine: validating parser, optimizer, bytecode compiler and    *)
(* bytecode VM.                                                            *)
(*                                                                         *)
(* Go values of static type interface{} are records                        *)
(*   [gt |-> dynamic type, n |-> number, s |-> string, b |-> bool].        *)
(* A float64 holds n/2 (n counts halves), so 30 is F64(60) and 30.5 is     *)
(* F64(61); an int or int64 holds n.  Byte positions, instruction indices  *)
(* and fact indices are 0-based as in the Go code; TLA+ sequences are      *)
(* 1-based, so byte p of a slice b is b[p + 1].                            *)
(***************************************************************************)
EXTENDS Integers, Sequences, FiniteSets, TLC

VARIABLES
    pc,         \* position of the driver of the specification being run
    rulesIn,    \* the rule list handed to the operation under study
    ctx,        \* rules.RuleEngineContext (FactIndex)
    comp,       \* the Compiler object
    compiled,   \* what Compile returned: [bytes, err]
    vm,         \* the VM object: bytecode, ip, stack, facts, and how Run ended
    factsIn,    \* the facts the host holds for the run; NewVM takes none
    fetched,    \* [at, next]: Run fetched an opcode at byte at and went on at next
    ruleHeap,   \* the rule objects, a pointer being an index of this sequence
    inSlice,    \* the caller's []*Rule: the pointers it holds, in order
    optOut,     \* first OptimizeRules / prioritizeRules call: the pointers
                \* returned and the rules they pointed at when it returned
    optOut2,    \* the same for a second OptimizeRules call
    mode,       \* what the second call was given: "same", "output" or "fresh"
    doc,        \* the rule document handed to ParseRule
    parsed      \* what ParseRule returned: [err, rule]

vmVars    == <<ctx, comp, compiled, vm, factsIn, fetched>>
optVars   == <<ruleHeap, inSlice, optOut, optOut2, mode>>
parseVars == <<doc, parsed>>
vars      == <<pc, rulesIn, vmVars, optVars, parseVars>>

(***************************************************************************)
(* Go values                                                               *)
(***************************************************************************)
NilV      == [gt |-> "nil",     n |-> 0, s |-> "", b |-> FALSE]
F64(h)    == [gt |-> "float64", n |-> h, s |-> "", b |-> FALSE]
IntV(i)   == [gt |-> "int",     n |-> i, s |-> "", b |-> FALSE]
Int64V(i) == [gt |-> "int64",   n |-> i, s |-> "", b |-> FALSE]
StrV(x)   == [gt |-> "string",  n |-> 0, s |-> x,  b |-> FALSE]
BoolV(x)  == [gt |-> "bool",    n |-> 0, s |-> "", b |-> x]

\* a JSON number literal with integral value i, as json.Unmarshal stores it
Num(i) == F64(2 * i)

\* reflect.DeepEqual on two interface{} scalars: same dynamic type, same value
DeepEqual(v1, v2) == v1 = v2

\* the numeric order of two values of the same numeric dynamic type
NumLess(v1, v2) == v1.n < v2.n

(***************************************************************************)
(* Strings: the bytes of every string the model uses, for []byte(s),       *)
(* len(s) and the bytewise order Go's < on strings is.                     *)
(***************************************************************************)
StrBytes ==
  ("" :> <<>>) @@
  ("temperature" :> <<116, 101, 109, 112, 101, 114, 97, 116, 117, 114, 101>>) @@
  ("humidity" :> <<104, 117, 109, 105, 100, 105, 116, 121>>) @@
  ("room_occupied" :> <<114, 111, 111, 109, 95, 111, 99, 99, 117, 112, 105, 101, 100>>) @@
  ("ac_status" :> <<97, 99, 95, 115, 116, 97, 116, 117, 115>>) @@
  ("fan_status" :> <<102, 97, 110, 95, 115, 116, 97, 116, 117, 115>>) @@
  ("equal" :> <<101, 113, 117, 97, 108>>) @@
  ("notEqual" :> <<110, 111, 116, 69, 113, 117, 97, 108>>) @@
  ("lessThan" :> <<108, 101, 115, 115, 84, 104, 97, 110>>) @@
  ("lessThanOrEqual" :> <<108, 101, 115, 115, 84, 104, 97, 110, 79, 114, 69, 113, 117, 97, 108>>) @@
  ("greaterThan" :> <<103, 114, 101, 97, 116, 101, 114, 84, 104, 97, 110>>) @@
  ("greaterThanOrEqual" :> <<103, 114, 101, 97, 116, 101, 114, 84, 104, 97, 110, 79, 114, 69, 113, 117, 97, 108>>) @@
  ("contains" :> <<99, 111, 110, 116, 97, 105, 110, 115>>) @@
  ("notContains" :> <<110, 111, 116, 67, 111, 110, 116, 97, 105, 110, 115>>) @@
  ("=" :> <<61>>) @@
  ("!=" :> <<33, 61>>) @@
  ("<" :> <<60>>) @@
  ("<=" :> <<60, 61>>) @@
  (">" :> <<62>>) @@
  (">=" :> <<62, 61>>) @@
  ("matches" :> <<109, 97, 116, 99, 104, 101, 115>>) @@
  ("int" :> <<105, 110, 116>>) @@
  ("float" :> <<102, 108, 111, 97, 116>>) @@
  ("string" :> <<115, 116, 114, 105, 110, 103>>) @@
  ("bool" :> <<98, 111, 111, 108>>) @@
  ("unknown" :> <<117, 110, 107, 110, 111, 119, 110>>) @@
  ("rule_start" :> <<114, 117, 108, 101, 95, 115, 116, 97, 114, 116>>) @@
  ("rule_end" :> <<114, 117, 108, 101, 95, 101, 110, 100>>) @@
  ("action" :> <<97, 99, 116, 105, 111, 110>>) @@
  ("any_end" :> <<97, 110, 121, 95, 101, 110, 100>>) @@
  ("on" :> <<111, 110>>) @@
  ("John" :> <<74, 111, 104, 110>>) @@
  ("updateFact" :> <<117, 112, 100, 97, 116, 101, 70, 97, 99, 116>>) @@
  ("sendMessage" :> <<115, 101, 110, 100, 77, 101, 115, 115, 97, 103, 101>>) @@
  ("notify" :> <<110, 111, 116, 105, 102, 121>>) @@
  ("R1" :> <<82, 49>>) @@
  ("R2" :> <<82, 50>>) @@
  ("R3" :> <<82, 51>>) @@
  ("R4" :> <<82, 52>>)

RECURSIVE SeqLess(_, _)
\* bytewise lexicographic order of two byte sequences
SeqLess(x, y) ==
    IF Len(y) = 0 THEN FALSE
    ELSE IF Len(x) = 0 THEN TRUE
    ELSE IF Head(x) # Head(y) THEN Head(x) < Head(y)
    ELSE SeqLess(Tail(x), Tail(y))

\* Go's s1 < s2 on strings
StrLess(s1, s2) == SeqLess(StrBytes[s1], StrBytes[s2])

RECURSIVE DecimalBytes(_)
\* the ASCII digits fmt's %d prints for a non-negative int
DecimalBytes(i) ==
    IF i < 10 THEN <<48 + i>> ELSE DecimalBytes(i \div 10) \o <<48 + (i % 10)>>

\* the sub-slice b[from:] of a byte slice (from is 0-based, from <= len(b))
SliceFrom(b, from) == SubSeq(b, from + 1, Len(b))

(***************************************************************************)
(* Opcodes (iota order of the const block)                                 *)
(***************************************************************************)
EQ_INT == 0
NEQ_INT == 1
LT_INT == 2
LTE_INT == 3
GT_INT == 4
GTE_INT == 5
EQ_FLOAT == 6
NEQ_FLOAT == 7
LT_FLOAT == 8
LTE_FLOAT == 9
GT_FLOAT == 10
GTE_FLOAT == 11
EQ_STRING == 12
NEQ_STRING == 13
AND == 14
OR == 15
NOT == 16
LOAD_FACT == 17
LOAD_CONST_INT == 19
LOAD_CONST_FLOAT == 20
LOAD_CONST_STRING == 21
LOAD_CONST_BOOL == 22
JUMP == 24
JUMP_IF_TRUE == 25
JUMP_IF_FALSE == 26
UPDATE_FACT == 28
SEND_MESSAGE == 29
NOP == 30
HALT == 31

\* Opcode.HasOperands
HasOperands(op) ==
    op \in {LOAD_CONST_INT, LOAD_CONST_FLOAT, LOAD_CONST_STRING, LOAD_CONST_BOOL,
            LOAD_FACT, JUMP, JUMP_IF_TRUE, JUMP_IF_FALSE}

(***************************************************************************)
(* Rule model                                                              *)
(***************************************************************************)
\* rules.Condition with only the leaf fields set
Leaf(f, op, v, vt) ==
    [Fact |-> f, Operator |-> op, Value |-> v, ValueType |-> vt,
     All |-> <<>>, Any |-> <<>>]

\* rules.Condition used only for nesting (vt is its valueType field)
Block(vt, all, any) ==
    [Fact |-> "", Operator |-> "", Value |-> NilV, ValueType |-> vt,
     All |-> all, Any |-> any]

\* rules.Action
Action(type, target, v) == [Type |-> type, Target |-> target, Value |-> v]

\* rules.Rule (Event reduced to its Actions)
Rule(name, prio, all, any, actions, produced, consumed) ==
    [Name |-> name, Priority |-> prio, Conditions |-> [All |-> all, Any |-> any],
     Actions |-> actions, ProducedFacts |-> produced, ConsumedFacts |-> consumed]

EmptyMap == [x \in {} |-> 0]

RECURSIVE registerFacts_overwrite(_, _, _)
\* the loop without its test for a name that is already present
registerFacts_overwrite(factIndex, names, i) ==
    IF i > Len(names) THEN factIndex
    ELSE registerFacts_overwrite(
           (names[i] :> Cardinality(DOMAIN factIndex)) @@ factIndex, names, i + 1)

RECURSIVE registerFacts(_, _, _)
\* one of the two inner loops of updateContextWithRuleFacts
registerFacts(factIndex, names, i) ==
    IF i > Len(names) THEN factIndex
    ELSE registerFacts(
           IF names[i] \in DOMAIN factIndex THEN factIndex
           ELSE factIndex @@ (names[i] :> Cardinality(DOMAIN factIndex)),
           names, i + 1)

RECURSIVE updateContextWithRuleFacts(_, _, _)
\* FactIndex after registering, for each rule from the i-th on, its consumed
\* and then its produced facts
updateContextWithRuleFacts(rs, factIndex, i) ==
    IF i > Len(rs) THEN factIndex
    ELSE updateContextWithRuleFacts(rs,
           registerFacts(registerFacts(factIndex, rs[i].ConsumedFacts, 1),
                         rs[i].ProducedFacts, 1),
           i + 1)

(***************************************************************************)
(* Compiler                                                                *)
(* err is how the running call has ended so far: "none", "error" (an error *)
(* is being returned), "fatal" (log.Fatal: the process exits) or "panic".  *)
(***************************************************************************)
NewCompiler(factIndex) ==
    [instructions |-> <<>>, bytecode |-> <<>>, labelOffsets |-> EmptyMap,
     labelCounter |-> 0, context |-> factIndex, jumpsNeedingLabels |-> <<>>,
     err |-> "none"]

\* fmt.Sprintf("%s_%d", base, c.labelCounter); the label is kept as the pair
LabelName(c, base) == [base |-> base, n |-> c.labelCounter]

\* []byte(label)
LabelBytes(label) == StrBytes[label.base] \o <<95>> \o DecimalBytes(label.n)

generateUniqueLabel(c, base) == [c EXCEPT !.labelCounter = @ + 1]

emitInstruction(c, opcode, operands) ==
    [c EXCEPT !.bytecode = @ \o <<opcode>> \o operands,
              !.instructions = Append(@, [Opcode |-> opcode, Operands |-> operands,
                                          BytecodePosition |-> Len(c.bytecode)])]

emitLabel(c, label) ==
    [c EXCEPT !.labelOffsets = (label :> Len(c.bytecode)) @@ @]

\* the append to c.jumpsNeedingLabels after a jump was emitted
recordJump(c, label) ==
    [c EXCEPT !.jumpsNeedingLabels =
        Append(@, [instructionIndex |-> Len(c.instructions) - 1, label |-> label])]

\* byte(x) of a non-negative int
ByteOf(x) == x % 256

\* int(v) of a float64 holding h halves: truncation toward zero
TruncHalves(h) == IF h >= 0 THEN h \div 2 ELSE -((-h) \div 2)

RECURSIVE LEBytes(_, _)
\* the k low bytes of a non-negative integer, little-endian
LEBytes(x, k) == IF k = 0 THEN <<>> ELSE <<x % 256>> \o LEBytes(x \div 256, k - 1)

\* binary.LittleEndian.PutUint32(buf, uint32(i)): two's complement for i < 0
PutUint32(i) ==
    IF i >= 0 THEN LEBytes(i, 4)
    ELSE [k \in 1..4 |-> 255 - LEBytes(-i - 1, 4)[k]]

RECURSIVE Log2Floor(_)
Log2Floor(a) == IF a < 2 THEN 0 ELSE 1 + Log2Floor(a \div 2)

RECURSIVE Pow2(_)
Pow2(k) == IF k = 0 THEN 1 ELSE 2 * Pow2(k - 1)

\* binary.LittleEndian.PutUint64(buf, math.Float64bits(v)) for the float64 of
\* h halves, |h| < 2^21: sign, biased exponent and the top 20 fraction bits;
\* the low 32 fraction bits of such a value are zero
PutFloat64(h) ==
    IF h = 0 THEN <<0, 0, 0, 0, 0, 0, 0, 0>>
    ELSE LET a      == IF h < 0 THEN -h ELSE h
             e      == Log2Floor(a)
             biased == e + 1022
             top20  == (a - Pow2(e)) * Pow2(20 - e)
             sign   == IF h < 0 THEN 128 ELSE 0
         IN  <<0, 0, 0, 0, top20 % 256, (top20 \div 256) % 256,
               (biased % 16) * 16 + (top20 \div 65536), sign + (biased \div 16)>>

emitLoadConstantInstruction(c, value, valueType) ==
    IF c.err # "none" THEN c
    ELSE IF valueType = "int" THEN
        IF value.gt = "float64"
            THEN emitInstruction(c, LOAD_CONST_INT, PutUint32(TruncHalves(value.n)))
        ELSE IF value.gt = "int"
            THEN emitInstruction(c, LOAD_CONST_INT, PutUint32(value.n))
        ELSE [c EXCEPT !.err = "fatal"]
    ELSE IF valueType = "float" THEN
        IF value.gt = "int"
            THEN emitInstruction(c, LOAD_CONST_FLOAT, PutFloat64(2 * value.n))
        ELSE IF value.gt = "float64"
            THEN emitInstruction(c, LOAD_CONST_FLOAT, PutFloat64(value.n))
        ELSE [c EXCEPT !.err = "fatal"]
    ELSE IF valueType = "string" THEN
        IF value.gt # "string" THEN [c EXCEPT !.err = "fatal"]
        ELSE IF Len(StrBytes[value.s]) > 255 THEN [c EXCEPT !.err = "panic"]
        ELSE emitInstruction(c, LOAD_CONST_STRING,
                             <<ByteOf(Len(StrBytes[value.s]))>> \o StrBytes[value.s])
    ELSE IF valueType = "bool" THEN
        IF value.gt # "bool" THEN [c EXCEPT !.err = "fatal"]
        ELSE emitInstruction(c, LOAD_CONST_BOOL, <<IF value.b THEN 1 ELSE 0>>)
    ELSE [c EXCEPT !.err = "panic"]

getComparisonOpcode(operator) ==
    IF operator = "greaterThan" THEN GT_INT
    ELSE IF operator = "greaterThanOrEqual" THEN GTE_INT
    ELSE NOP

RECURSIVE compileCondition(_, _, _, _)
RECURSIVE compileNested(_, _, _, _, _)
\* the loops of compileCondition over condition.All / condition.Any
compileNested(c, conds, i, jumpLabel, jumpIfTrue) ==
    IF i > Len(conds) \/ c.err # "none" THEN c
    ELSE compileNested(compileCondition(c, conds[i], jumpLabel, jumpIfTrue),
                       conds, i + 1, jumpLabel, jumpIfTrue)

compileCondition(c, condition, jumpLabel, jumpIfTrue) ==
    IF c.err # "none" THEN c
    ELSE IF Len(condition.All) > 0 THEN
        compileNested(c, condition.All, 1, jumpLabel, FALSE)
    ELSE IF Len(condition.Any) > 0 THEN
        LET anyEndLabel == LabelName(c, "any_end")
            c1 == compileNested(generateUniqueLabel(c, "any_end"),
                                condition.Any, 1, jumpLabel, TRUE)
        IN  IF c1.err # "none" THEN c1
            ELSE emitLabel(recordJump(emitInstruction(c1, JUMP, <<0, 0>>), jumpLabel),
                           anyEndLabel)
    ELSE IF condition.Fact \notin DOMAIN c.context THEN [c EXCEPT !.err = "error"]
    ELSE
        LET c1 == emitInstruction(c, LOAD_FACT, <<ByteOf(c.context[condition.Fact])>>)
            c2 == emitLoadConstantInstruction(c1, condition.Value, condition.ValueType)
            c3 == emitInstruction(c2, getComparisonOpcode(condition.Operator), <<>>)
            c4 == emitInstruction(c3, IF jumpIfTrue THEN JUMP_IF_TRUE ELSE JUMP_IF_FALSE,
                                  <<0, 0>>)
        IN  IF c2.err # "none" THEN c2 ELSE recordJump(c4, jumpLabel)

RECURSIVE compileAll(_, _, _, _)
\* first loop of compileConditions
compileAll(c, conds, i, endLabel) ==
    IF i > Len(conds) \/ c.err # "none" THEN c
    ELSE compileAll(compileCondition(c, conds[i], endLabel, FALSE), conds, i + 1, endLabel)

RECURSIVE compileAny(_, _, _, _)
\* second loop of compileConditions
compileAny(c, conds, i, endLabel) ==
    IF i > Len(conds) \/ c.err # "none" THEN c
    ELSE LET actionLabel == LabelName(c, "action")
             c1 == compileCondition(generateUniqueLabel(c, "action"), conds[i],
                                    actionLabel, TRUE)
         IN  IF c1.err # "none" THEN c1
             ELSE compileAny(
                    recordJump(emitInstruction(c1, JUMP, LabelBytes(endLabel)), endLabel),
                    conds, i + 1, endLabel)

compileConditions(c, conditions, endLabel) ==
    compileAny(compileAll(c, conditions.All, 1, endLabel), conditions.Any, 1, endLabel)

RECURSIVE compileActions(_, _, _)
\* the loop of compileRule over rule.Event.Actions
compileActions(c, actions, i) ==
    IF i > Len(actions) \/ c.err # "none" THEN c
    ELSE IF actions[i].Type = "updateFact" THEN
        IF actions[i].Target \notin DOMAIN c.context THEN [c EXCEPT !.err = "error"]
        ELSE compileActions(
               emitLoadConstantInstruction(
                 emitInstruction(c, UPDATE_FACT, <<ByteOf(c.context[actions[i].Target])>>),
                 actions[i].Value, "bool"),
               actions, i + 1)
    ELSE [c EXCEPT !.err = "error"]

compileRule(c, rule) ==
    LET startLabel == LabelName(c, "rule_start")
        c1 == generateUniqueLabel(c, "rule_start")
        endLabel == LabelName(c1, "rule_end")
        c2 == emitLabel(generateUniqueLabel(c1, "rule_end"), startLabel)
        c3 == compileConditions(c2, rule.Conditions, endLabel)
        c4 == compileActions(c3, rule.Actions, 1)
    IN  IF c4.err # "none" THEN c4 ELSE emitLabel(c4, endLabel)

\* binary.LittleEndian.PutUint16(b[pos:], uint16(x)): panics when fewer than
\* two bytes are left at pos
PutUint16At(c, pos, x) ==
    IF pos + 2 > Len(c.bytecode) THEN [c EXCEPT !.err = "panic"]
    ELSE LET u == x % 65536
         IN  [c EXCEPT !.bytecode[pos + 1] = u % 256, !.bytecode[pos + 2] = u \div 256]

RECURSIVE resolveJumps(_, _)
\* the loop of resolveLabelOffsets from the i-th pending jump on
resolveJumps(c, i) ==
    IF i > Len(c.jumpsNeedingLabels) \/ c.err # "none" THEN c
    ELSE LET jump == c.jumpsNeedingLabels[i]
         IN  IF jump.label \notin DOMAIN c.labelOffsets THEN [c EXCEPT !.err = "error"]
             ELSE LET labelOffset == c.labelOffsets[jump.label]
                      placeholderPosition ==
                          c.instructions[jump.instructionIndex + 1].BytecodePosition
                  IN  resolveJumps(
                        PutUint16At(c, placeholderPosition,
                                    labelOffset - placeholderPosition - 2),
                        i + 1)

resolveLabelOffsets(c) == resolveJumps(c, 1)

RECURSIVE compileRules(_, _, _)
\* the loop of Compile over the rules
compileRules(c, rs, i) ==
    IF i > Len(rs) \/ c.err # "none" THEN c
    ELSE compileRules(compileRule(c, rs[i]), rs, i + 1)

\* Compiler.Compile: the compiler object after the call (err: how it ended)
Compile(c, rs) ==
    resolveLabelOffsets(compileRules([c EXCEPT !.err = "none"], rs, 1))

\* what the caller of Compile gets: the bytes, or nil with an error
CompileResult(c) ==
    [bytes |-> IF c.err = "none" THEN c.bytecode ELSE <<>>, err |-> c.err]

(***************************************************************************)
(* Virtual machine                                                         *)
(* status: "new" (before Run), "running", "ok" (Run returned nil),         *)
(* "error" (Run returned an error; errIP is the IP field of a *VMError,    *)
(* -1 for an error value without one), "panic" (Run panicked: the deferred *)
(* recover re-panics), "hang" (a loop that never ends).                    *)
(***************************************************************************)
NewVM(bytecode) ==
    [bytecode |-> bytecode, ip |-> 0, stack |-> <<>>, facts |-> EmptyMap,
     status |-> "new", errIP |-> -1]

\* readHeader: binary.Read needs the 10 bytes of the Header fields and fails on
\* fewer (the size returned is 0); otherwise unsafe.Sizeof(header), the
\* padded struct
readHeader(bytecode) == IF Len(bytecode) < 10 THEN 0 ELSE 12

RECURSIVE UvarintN(_, _)
\* the count binary.Uvarint returns, reading from byte i on: the number of
\* bytes read, 0 when buf ends inside the number, -(i+1) on overflow
UvarintN(buf, i) ==
    IF i >= Len(buf) THEN 0
    ELSE IF i = 10 THEN -(i + 1)
    ELSE IF buf[i + 1] < 128
        THEN (IF i = 9 /\ buf[i + 1] > 1 THEN -(i + 1) ELSE i + 1)
    ELSE UvarintN(buf, i + 1)

RECURSIVE UvarintX(_, _, _)
\* the value binary.Uvarint returns for a number that ends at byte k - 1
UvarintX(buf, i, k) ==
    IF i >= k THEN 0 ELSE (buf[i + 1] % 128) + 128 * UvarintX(buf, i + 1, k)

\* decodeInt = binary.Varint: zig-zag of Uvarint; the value is 0 when n <= 0.
\* Numbers of more than 4 bytes exceed the integers of the checker: wide
decodeInt(buf) ==
    LET n  == UvarintN(buf, 0)
        ux == IF n \in 1..4 THEN UvarintX(buf, 0, n) ELSE 0
    IN  [value |-> IF ux % 2 = 0 THEN ux \div 2 ELSE -(ux \div 2) - 1,
         n |-> n, wide |-> n > 4]

\* math.Float64frombits of 8 little-endian bytes, as halves; exact is FALSE
\* for a float64 that is not a multiple of 1/2 below 2^20
HalvesOfBits(b) ==
    LET biased == (b[8] % 128) * 16 + (b[7] \div 16)
        top20  == (b[7] % 16) * 65536 + b[6] * 256 + b[5]
        e      == biased - 1022
        zero   == \A k \in 1..7 : b[k] = 0
        fits   == /\ e \in 0..20
                  /\ \A k \in 1..4 : b[k] = 0
                  /\ top20 % Pow2(20 - e) = 0
        a      == Pow2(e) + (top20 \div Pow2(20 - e))
    IN  IF zero /\ b[8] % 128 = 0 THEN [h |-> 0, exact |-> TRUE]
        ELSE IF ~fits THEN [h |-> 0, exact |-> FALSE]
        ELSE [h |-> IF b[8] >= 128 THEN -a ELSE a, exact |-> TRUE]

\* decodeFloat: binary.LittleEndian.Uint64 panics on fewer than 8 bytes
decodeFloat(buf) ==
    IF Len(buf) < 8 THEN [value |-> 0, n |-> 8, panic |-> TRUE, exact |-> TRUE]
    ELSE [value |-> HalvesOfBits(SubSeq(buf, 1, 8)).h, n |-> 8, panic |-> FALSE,
          exact |-> HalvesOfBits(SubSeq(buf, 1, 8)).exact]

\* the index of the first 0 byte of buf, Len(buf) when there is none
FirstZero(buf) ==
    IF \E i \in 1..Len(buf) : buf[i] = 0
        THEN (CHOOSE i \in 1..Len(buf) : buf[i] = 0 /\ \A j \in 1..(i - 1) : buf[j] # 0) - 1
        ELSE Len(buf)

\* string(bytes): the string of the table with these bytes; known is FALSE
\* for bytes that spell no string of the table
StringOf(bytes) ==
    IF \E x \in DOMAIN StrBytes : StrBytes[x] = bytes
        THEN [s |-> CHOOSE x \in DOMAIN StrBytes : StrBytes[x] = bytes, known |-> TRUE]
        ELSE [s |-> "", known |-> FALSE]

\* decodeString: the bytes before the first 0 byte; "" and n = 0 without one
decodeString(buf) ==
    LET i == FirstZero(buf)
    IN  IF i = Len(buf) THEN [value |-> "", n |-> 0, known |-> TRUE]
        ELSE [value |-> StringOf(SubSeq(buf, 1, i)).s, n |-> i + 1,
              known |-> StringOf(SubSeq(buf, 1, i)).known]

\* decodeValue: the number of bytes it reports (m + 1) and how it ended.  The
\* decoded value is only printed, so it is left out.  In the default case the
\* slice is left as it is and 0 is reported.
decodeValue(b) ==
    IF b[1] = 0 THEN
        LET m == decodeInt(SliceFrom(b, 1)).n
        IN  [m |-> m + 1, out |-> IF m + 1 < 0 THEN "panic" ELSE "ok"]
    ELSE IF b[1] = 1 THEN
        [m |-> 9, out |-> IF decodeFloat(SliceFrom(b, 1)).panic THEN "panic" ELSE "ok"]
    ELSE IF b[1] = 2 THEN
        [m |-> decodeString(SliceFrom(b, 1)).n + 1, out |-> "ok"]
    ELSE IF b[1] = 3 THEN
        [m |-> 2, out |-> IF Len(b) < 2 THEN "panic" ELSE "ok"]
    ELSE [m |-> 0, out |-> "ok"]

RECURSIVE decodeOperands(_, _)
\* decodeOperands: n, the bytes consumed so far plus those of the rest b; the
\* loop ends when b is empty, panics with decodeValue, and never ends once
\* decodeValue reports 0 bytes for a non-empty b
decodeOperands(b, n) ==
    IF Len(b) = 0 THEN [n |-> n, out |-> "ok"]
    ELSE LET d == decodeValue(b)
         IN  IF d.out = "panic" THEN [n |-> n, out |-> "panic"]
             ELSE IF d.m = 0 THEN [n |-> n, out |-> "hang"]
             ELSE decodeOperands(SliceFrom(b, d.m), n + d.m)

\* VM.pop on a stack
CanPop(stack) == Len(stack) > 0
Top(stack) == stack[Len(stack)]
Pop(stack) == SubSeq(stack, 1, Len(stack) - 1)

VMErrorAt(v) == [v EXCEPT !.status = "error", !.errIP = v.ip]
VMPanic(v) == [v EXCEPT !.status = "panic"]

\* the type a typed opcode asserts for its arguments, "" for no binary opcode
OperandType(opcode) ==
    IF opcode \in {EQ_INT, NEQ_INT, LT_INT, LTE_INT, GT_INT, GTE_INT} THEN "int"
    ELSE IF opcode \in {EQ_FLOAT, NEQ_FLOAT, LT_FLOAT, LTE_FLOAT, GT_FLOAT, GTE_FLOAT}
        THEN "float64"
    ELSE IF opcode \in {EQ_STRING, NEQ_STRING} THEN "string"
    ELSE IF opcode \in {AND, OR} THEN "bool"
    ELSE ""

\* the function literal a binary opcode hands to binaryOp, on well-typed a, b
BinaryResult(opcode, a, b) ==
    IF opcode \in {EQ_INT, EQ_FLOAT} THEN a.n = b.n
    ELSE IF opcode \in {NEQ_INT, NEQ_FLOAT} THEN a.n # b.n
    ELSE IF opcode \in {LT_INT, LT_FLOAT} THEN a.n < b.n
    ELSE IF opcode \in {LTE_INT, LTE_FLOAT} THEN a.n <= b.n
    ELSE IF opcode \in {GT_INT, GT_FLOAT} THEN a.n > b.n
    ELSE IF opcode \in {GTE_INT, GTE_FLOAT} THEN a.n >= b.n
    ELSE IF opcode = EQ_STRING THEN a.s = b.s
    ELSE IF opcode = NEQ_STRING THEN a.s # b.s
    ELSE IF opcode = AND THEN a.b /\ (a.b => b.b)
    ELSE a.b \/ (~a.b /\ b.b)

\* whether the function literal of a binary opcode panics on a, b: a failed
\* type assertion.  The comparisons assert both arguments; AND and OR are
\* a.(bool) && b.(bool) and a.(bool) || b.(bool), which assert b only when a
\* does not decide the result
BinaryPanics(opcode, a, b) ==
    IF opcode = AND THEN a.gt # "bool" \/ (a.b /\ b.gt # "bool")
    ELSE IF opcode = OR THEN a.gt # "bool" \/ (~a.b /\ b.gt # "bool")
    ELSE a.gt # OperandType(opcode) \/ b.gt # OperandType(opcode)

\* VM.binaryOp with the opcode's function: pop b, pop a, push op(a, b); a
\* failed type assertion inside op panics after both pops
binaryOp(v, opcode) ==
    IF ~CanPop(v.stack) THEN VMErrorAt(v)
    ELSE LET b  == Top(v.stack)
             v1 == [v EXCEPT !.stack = Pop(v.stack)]
         IN  IF ~CanPop(v1.stack) THEN VMErrorAt(v1)
             ELSE LET a  == Top(v1.stack)
                      v2 == [v1 EXCEPT !.stack = Pop(v1.stack)]
                  IN  IF BinaryPanics(opcode, a, b) THEN VMPanic(v2)
                      ELSE [v2 EXCEPT !.stack = Append(@, BoolV(BinaryResult(opcode, a, b)))]

\* VM.unaryOp with NOT's function
unaryOp(v) ==
    IF ~CanPop(v.stack) THEN VMErrorAt(v)
    ELSE LET a  == Top(v.stack)
             v1 == [v EXCEPT !.stack = Pop(v.stack)]
         IN  IF a.gt # "bool" THEN VMPanic(v1)
             ELSE [v1 EXCEPT !.stack = Append(@, BoolV(~a.b))]

\* the cases JUMP_IF_TRUE (onTrue) and JUMP_IF_FALSE of Run's switch
condJump(v, onTrue) ==
    LET d  == decodeInt(SliceFrom(v.bytecode, v.ip))
        v1 == [v EXCEPT !.ip = @ + d.n]
    IN  IF d.wide THEN [v EXCEPT !.status = "wide"]
        ELSE IF ~CanPop(v1.stack) THEN VMErrorAt(v1)
        ELSE LET a  == Top(v1.stack)
                 v2 == [v1 EXCEPT !.stack = Pop(v1.stack)]
             IN  IF a.gt # "bool" THEN VMPanic(v2)
                 ELSE IF a.b = onTrue THEN [v2 EXCEPT !.ip = d.value]
                 ELSE v2

\* the switch of Run on the opcode, v.ip being past the bytes skipped so far
execOpcode(v, opcode) ==
    IF opcode = LOAD_CONST_INT THEN
        LET d == decodeInt(SliceFrom(v.bytecode, v.ip))
        IN  IF d.wide THEN [v EXCEPT !.status = "wide"]
            ELSE [v EXCEPT !.ip = @ + d.n, !.stack = Append(@, IntV(d.value))]
    ELSE IF opcode = LOAD_CONST_FLOAT THEN
        LET d == decodeFloat(SliceFrom(v.bytecode, v.ip))
        IN  IF d.panic THEN VMPanic(v)
            ELSE IF ~d.exact THEN [v EXCEPT !.status = "wide"]
            ELSE [v EXCEPT !.ip = @ + d.n, !.stack = Append(@, F64(d.value))]
    ELSE IF opcode = LOAD_CONST_STRING THEN
        LET d == decodeString(SliceFrom(v.bytecode, v.ip))
        IN  IF ~d.known THEN [v EXCEPT !.status = "wide"]
            ELSE [v EXCEPT !.ip = @ + d.n, !.stack = Append(@, StrV(d.value))]
    ELSE IF opcode = LOAD_FACT THEN
        LET d  == decodeString(SliceFrom(v.bytecode, v.ip))
            v1 == [v EXCEPT !.ip = @ + d.n]
        IN  IF ~d.known THEN [v EXCEPT !.status = "wide"]
            ELSE IF d.value \notin DOMAIN v.facts
                THEN [v1 EXCEPT !.status = "error", !.errIP = -1]
            ELSE [v1 EXCEPT !.stack = Append(@, v.facts[d.value])]
    ELSE IF OperandType(opcode) # "" THEN binaryOp(v, opcode)
    ELSE IF opcode = NOT THEN unaryOp(v)
    ELSE IF opcode = JUMP THEN
        LET d == decodeInt(SliceFrom(v.bytecode, v.ip))
        IN  IF d.wide THEN [v EXCEPT !.status = "wide"] ELSE [v EXCEPT !.ip = d.value]
    ELSE IF opcode = JUMP_IF_TRUE THEN condJump(v, TRUE)
    ELSE IF opcode = JUMP_IF_FALSE THEN condJump(v, FALSE)
    ELSE IF opcode = HALT THEN [v EXCEPT !.status = "ok"]
    ELSE VMErrorAt(v)

\* one pass of the loop of Run: the loop test, the fetch, the operand
\* pre-decoding and the switch.  A negative ip passes the loop test and the
\* fetch panics.
RunStep(v) ==
    IF v.ip >= Len(v.bytecode) THEN [v EXCEPT !.status = "ok"]
    ELSE IF v.ip < 0 THEN VMPanic(v)
    ELSE LET opcode == v.bytecode[v.ip + 1]
             v1     == [v EXCEPT !.ip = @ + 1]
             d      == decodeOperands(SliceFrom(v1.bytecode, v1.ip), 0)
         IN  IF ~HasOperands(opcode) THEN execOpcode(v1, opcode)
             ELSE IF d.out = "panic" THEN VMPanic(v1)
             ELSE IF d.out = "hang" THEN [v1 EXCEPT !.status = "hang"]
             ELSE execOpcode([v1 EXCEPT !.ip = @ + d.n], opcode)

\* the start of Run: skip the header
RunStart(v) == [v EXCEPT !.ip = readHeader(v.bytecode), !.status = "running"]

(***************************************************************************)
(* Inputs of the compile-and-run specification                             *)
(***************************************************************************)
MaxRules == 2

LeafT == Leaf("temperature", "greaterThan", Num(30), "int")
LeafH == Leaf("humidity", "lessThan", Num(40), "int")
LeafO == Leaf("room_occupied", "equal", BoolV(TRUE), "bool")
LeafF == Leaf("temperature", "greaterThanOrEqual", F64(61), "float")

ActAc  == Action("updateFact", "ac_status", BoolV(TRUE))
ActFan == Action("updateFact", "fan_status", BoolV(TRUE))

\* the condition trees of the rules that are compiled and run
VMConditions ==
    { [All |-> <<LeafT>>, Any |-> <<>>],
      [All |-> <<LeafO>>, Any |-> <<>>],
      [All |-> <<LeafF>>, Any |-> <<>>],
      [All |-> <<LeafT, LeafO>>, Any |-> <<>>],
      [All |-> <<LeafO, LeafT>>, Any |-> <<>>],
      [All |-> <<>>, Any |-> <<LeafH, LeafO>>],
      [All |-> <<LeafT, Block("", <<>>, <<LeafH, LeafO>>)>>, Any |-> <<>>],
      [All |-> <<Block("", <<LeafO, LeafT>>, <<>>)>>, Any |-> <<>>] }

VMActionLists == { <<>>, <<ActAc>>, <<ActAc, ActFan>> }

VMRules ==
    { Rule("R1", 0, c.All, c.Any, a, <<"ac_status", "fan_status">>,
           <<"temperature", "humidity", "room_occupied">>) :
        c \in VMConditions, a \in VMActionLists }

\* the sequences over S of length 1..n
SeqsUpTo(S, n) == UNION { [1..k -> S] : k \in 1..n }

\* the fact stores a host holds for a run: the three facts, or none.  They
\* stay with the host: the VM has the empty map NewVM makes
LoadedFacts ==
    { ("temperature" :> IntV(t)) @@ ("humidity" :> IntV(h)) @@ ("room_occupied" :> BoolV(o)) :
        t \in {10, 42}, h \in {30, 80}, o \in BOOLEAN }

VMFacts == LoadedFacts \cup {EmptyMap}

NoCompiler == NewCompiler(EmptyMap)
NoResult   == [bytes |-> <<>>, err |-> "none"]
NoVM       == NewVM(<<>>)
NoOutput   == [ptrs |-> <<>>, rules |-> <<>>]
NoDoc      == Rule("", 0, <<>>, <<>>, <<>>, <<>>, <<>>)
NoParse    == [err |-> "none", rule |-> <<>>]

(***************************************************************************)
(* Spec: the rules of one compilation unit are compiled and the bytecode   *)
(* is run by a VM made by NewVM; the host holds the facts for the run.     *)
(***************************************************************************)
Init ==
    /\ pc = "compile"
    /\ rulesIn \in SeqsUpTo(VMRules, MaxRules)
    /\ ctx = updateContextWithRuleFacts(rulesIn, EmptyMap, 1)
    /\ comp = NewCompiler(ctx)
    /\ compiled = NoResult
    /\ factsIn \in VMFacts
    /\ vm = NoVM
    /\ fetched = {}
    /\ ruleHeap = <<>>
    /\ inSlice = <<>>
    /\ optOut = NoOutput
    /\ optOut2 = NoOutput
    /\ mode = "none"
    /\ doc = NoDoc
    /\ parsed = NoParse

\* Compile(rules); on success the bytes are handed to NewVM
DoCompile ==
    /\ pc = "compile"
    /\ comp' = Compile(comp, rulesIn)
    /\ compiled' = CompileResult(comp')
    /\ IF compiled'.err = "none"
         THEN /\ vm' = NewVM(compiled'.bytes)
              /\ pc' = "loaded"
         ELSE /\ vm' = vm
              /\ pc' = "compile_failed"
    /\ UNCHANGED <<rulesIn, ctx, factsIn, fetched, optVars, parseVars>>

\* VM.Run up to the loop
VMRunStart ==
    /\ pc = "loaded"
    /\ vm' = RunStart(vm)
    /\ pc' = "running"
    /\ UNCHANGED <<rulesIn, ctx, comp, compiled, factsIn, fetched, optVars, parseVars>>

\* one pass of the loop of VM.Run, or its end
VMRunStep ==
    /\ pc = "running"
    /\ vm' = RunStep(vm)
    /\ fetched' = IF vm.ip >= 0 /\ vm.ip < Len(vm.bytecode)
                    THEN fetched \cup {[at |-> vm.ip, next |-> vm'.ip]}
                    ELSE fetched
    /\ pc' = IF vm'.status = "running" THEN "running" ELSE "done"
    /\ UNCHANGED <<rulesIn, ctx, comp, compiled, factsIn, optVars, parseVars>>

Next == DoCompile \/ VMRunStart \/ VMRunStep

Spec == Init /\ [][Next]_vars

(***************************************************************************)
(* Reference meaning of a rule (spec 4.3): a leaf compares the fact with   *)
(* its value, an all list is a conjunction, an any list a disjunction, and *)
(* updateFact writes its value at its target.                              *)
(***************************************************************************)
\* the number a numeric value holds, in halves
Halves(v) == IF v.gt = "float64" THEN v.n ELSE 2 * v.n

EvalLeaf(cond, facts) ==
    LET f == facts[cond.Fact]
        v == cond.Value
        numeric == cond.ValueType \in {"int", "float"}
        eq == IF numeric THEN Halves(f) = Halves(v) ELSE f = v
    IN  IF cond.Operator = "equal" THEN eq
        ELSE IF cond.Operator = "notEqual" THEN ~eq
        ELSE IF cond.Operator = "lessThan" THEN Halves(f) < Halves(v)
        ELSE IF cond.Operator = "lessThanOrEqual" THEN Halves(f) <= Halves(v)
        ELSE IF cond.Operator = "greaterThan" THEN Halves(f) > Halves(v)
        ELSE IF cond.Operator = "greaterThanOrEqual" THEN Halves(f) >= Halves(v)
        ELSE FALSE

RECURSIVE EvalNode(_, _)
\* a node with lists is the conjunction of its all list and, when it has an
\* any list, the disjunction of that list
EvalNode(cond, facts) ==
    IF Len(cond.All) = 0 /\ Len(cond.Any) = 0 THEN EvalLeaf(cond, facts)
    ELSE /\ \A i \in 1..Len(cond.All) : EvalNode(cond.All[i], facts)
         /\ Len(cond.Any) = 0 \/ \E i \in 1..Len(cond.Any) : EvalNode(cond.Any[i], facts)

EvalConditions(conditions, facts) ==
    /\ \A i \in 1..Len(conditions.All) : EvalNode(conditions.All[i], facts)
    /\ Len(conditions.Any) = 0 \/ \E i \in 1..Len(conditions.Any) : EvalNode(conditions.Any[i], facts)

RECURSIVE ApplyActions(_, _, _)
\* the fact store after the actions from the i-th on, in source order
ApplyActions(actions, facts, i) ==
    IF i > Len(actions) THEN facts
    ELSE ApplyActions(actions,
           (actions[i].Target :> actions[i].Value) @@ facts, i + 1)

RECURSIVE ExpectedFacts(_, _, _)
\* the fact store after the rules from the i-th on, each one evaluated on the
\* store the rules before it left
ExpectedFacts(rs, facts, i) ==
    IF i > Len(rs) THEN facts
    ELSE ExpectedFacts(rs,
           IF EvalConditions(rs[i].Conditions, facts)
               THEN ApplyActions(rs[i].Actions, facts, 1) ELSE facts,
           i + 1)

\* the byte positions Compile bound the rule_start labels to
RuleStarts(c) ==
    { c.labelOffsets[l] : l \in { x \in DOMAIN c.labelOffsets : x.base = "rule_start" } }

\* the byte position Compile bound the first rule's end label to
FirstRuleEnd(c) == c.labelOffsets[[base |-> "rule_end", n |-> 1]]

\* the run is over and it was a run of one compiled rule by a host that
\* holds the three facts
OneRuleDone == pc = "done" /\ Len(rulesIn) = 1 /\ factsIn \in LoadedFacts

\* the facts that after holds and before does not hold with the same value:
\* what a run or a rule evaluation added or changed
Written(before, after) ==
    [k \in { x \in DOMAIN after : x \notin DOMAIN before \/ before[x] # after[x] }
        |-> after[k]]

\* what the run added or changed in the map NewVM gave the VM
RunEffects == Written(NewVM(compiled.bytes).facts, vm.facts)

\* what the rules add or change on the host's facts when they are evaluated
\* as the specification describes
ExpectedEffects == Written(factsIn, ExpectedFacts(rulesIn, factsIn, 1))

\* C1: after a run of the bytecode of one rule, for facts that define every
\* referenced fact, the facts the run added or changed are the ones the
\* rule's actions set if the condition tree is true on the facts, and none if
\* the tree is false.
C1_ActionsIffConditionsTrue ==
    OneRuleDone => RunEffects = ExpectedEffects

\* the first two entries of the rule's top-level all list are leaves and the
\* first one is false on the host's facts
FirstLeafFalse ==
    /\ Len(rulesIn[1].Conditions.All) >= 2
    /\ Len(rulesIn[1].Conditions.Any) = 0
    /\ \A i \in 1..2 : /\ Len(rulesIn[1].Conditions.All[i].All) = 0
                       /\ Len(rulesIn[1].Conditions.All[i].Any) = 0
    /\ ~EvalLeaf(rulesIn[1].Conditions.All[1], factsIn)

\* C2: when the first leaf of a top-level all list of two or more leaves is
\* false, the run never fetches the LOAD_FACT of the second leaf (the fifth
\* instruction), and the first leaf's conditional jump (the fourth
\* instruction) is executed and continues at the rule's end.
C2_ShortCircuitOnFalseFirstLeaf ==
    (OneRuleDone /\ FirstLeafFalse) =>
        /\ \A e \in fetched : e.at # comp.instructions[5].BytecodePosition
        /\ [at |-> comp.instructions[4].BytecodePosition,
            next |-> FirstRuleEnd(comp)] \in fetched

\* C3: after a run of the bytecode of two rules, the first instruction of
\* every rule has been executed (no rule stops the rules after it) and the
\* facts the run added or changed are the ones obtained by evaluating the
\* rules in list order on the host's facts, each rule's actions applied in
\* source order before the next rule starts.
C3_RulesRunInListOrder ==
    (pc = "done" /\ Len(rulesIn) = 2 /\ factsIn \in LoadedFacts) =>
        /\ \A p \in RuleStarts(comp) : \E e \in fetched : e.at = p
        /\ RunEffects = ExpectedEffects

(***************************************************************************)
(* Optimizer.  Rules are objects on a heap (a sequence of rule records); a *)
(* []*rules.Rule is a sequence of pointers, the indices of the heap.  The  *)
(* slices inside a rule are values, except that sortConditions sorts the   *)
(* slices of the rule it is given in place.                                *)
(***************************************************************************)
compareValues(v1, v2, valueType) ==
    IF valueType = "int" THEN v1.gt = "int" /\ v2.gt = "int" /\ v1.n < v2.n
    ELSE IF valueType = "float" THEN v1.gt = "float64" /\ v2.gt = "float64" /\ v1.n < v2.n
    ELSE IF valueType = "string"
        THEN v1.gt = "string" /\ v2.gt = "string" /\ StrLess(v1.s, v2.s)
    ELSE IF valueType = "bool" THEN v1.gt = "bool" /\ v2.gt = "bool" /\ ~v1.b /\ v2.b
    ELSE FALSE

\* the less function sortConditions hands to sort.SliceStable
conditionLess(ci, cj) ==
    IF ci.Fact # cj.Fact THEN StrLess(ci.Fact, cj.Fact)
    ELSE IF ci.Operator # cj.Operator THEN StrLess(ci.Operator, cj.Operator)
    ELSE IF ci.ValueType # cj.ValueType THEN StrLess(ci.ValueType, cj.ValueType)
    ELSE compareValues(ci.Value, cj.Value, ci.ValueType)

RECURSIVE insertCondition(_, _)
\* inner loop of the insertion sort sort.SliceStable runs on up to 20
\* elements: x moves left while it is less than its left neighbour
insertCondition(sorted, x) ==
    IF Len(sorted) > 0 /\ conditionLess(x, sorted[Len(sorted)])
        THEN Append(insertCondition(SubSeq(sorted, 1, Len(sorted) - 1), x),
                    sorted[Len(sorted)])
        ELSE Append(sorted, x)

RECURSIVE stableSortConditions(_, _, _)
\* outer loop of the insertion sort, from the i-th element on
stableSortConditions(conds, i, sorted) ==
    IF i > Len(conds) THEN sorted
    ELSE stableSortConditions(conds, i + 1, insertCondition(sorted, conds[i]))

RECURSIVE sortConditions(_)
RECURSIVE sortNested(_, _)
\* second loop of sortConditions from the i-th element on: the nested lists
\* of each element are normalized
sortNested(conditions, i) ==
    IF i > Len(conditions) THEN conditions
    ELSE IF Len(conditions[i].All) > 0 \/ Len(conditions[i].Any) > 0
        THEN sortNested([conditions EXCEPT ![i].All = sortConditions(@),
                                           ![i].Any = sortConditions(@)], i + 1)
    ELSE sortNested(conditions, i + 1)

\* sortConditions, with normalizeConditions on the nested lists: the slice
\* after the call, which is also what the caller's slice holds then
sortConditions(conditions) ==
    sortNested(stableSortConditions(conditions, 1, <<>>), 1)

normalizeConditions(conds) ==
    [All |-> sortConditions(conds.All), Any |-> sortConditions(conds.Any)]

\* json.Marshal of a condition value: a Go int and a float64 of the same
\* number print the same digits
jsonValue(v) ==
    IF v.gt \in {"int", "int64", "float64"}
        THEN [k |-> "number", n |-> Halves(v), s |-> "", b |-> FALSE]
        ELSE [k |-> v.gt, n |-> 0, s |-> v.s, b |-> v.b]

RECURSIVE jsonConditions(_)
\* json.Marshal of a []Condition (all and any are omitted when empty)
jsonConditions(conds) ==
    IF Len(conds) = 0 THEN <<>>
    ELSE <<[fact |-> Head(conds).Fact, operator |-> Head(conds).Operator,
            value |-> jsonValue(Head(conds).Value), valueType |-> Head(conds).ValueType,
            all |-> jsonConditions(Head(conds).All),
            any |-> jsonConditions(Head(conds).Any)]>> \o jsonConditions(Tail(conds))

\* conditionsKey: the hash is one-to-one on the serializations, so the key is
\* the serialization of the normalized conditions
conditionsKey(conds) ==
    [all |-> jsonConditions(normalizeConditions(conds).All),
     any |-> jsonConditions(normalizeConditions(conds).Any)]

\* the element of a set of one element.  Only({ e(x) : x \in {v} }) is e of
\* the value of v: v is computed once, before e, as a statement sequence does
Only(S) == CHOOSE x \in S : TRUE

RECURSIVE mergeLoop(_, _, _, _)
\* first loop of mergeRules from the i-th rule on; merged is the map, as the
\* sequence of its [key, ptr] entries in insertion order.  conditionsKey has
\* sorted the condition slices of the rule it was given.
mergeLoop(heap, list, i, merged) ==
    IF i > Len(list) THEN [heap |-> heap, merged |-> merged]
    ELSE LET p     == list[i]
             key   == conditionsKey(heap[p].Conditions)
             h1    == [heap EXCEPT ![p].Conditions = normalizeConditions(@)]
             found == { k \in 1..Len(merged) : merged[k].key = key }
             e     == merged[CHOOSE k \in found : TRUE].ptr
             next  == IF found # {}
                        THEN [heap |-> [h1 EXCEPT
                                  ![e].Actions = @ \o h1[p].Actions,
                                  ![e].ProducedFacts = @ \o h1[p].ProducedFacts,
                                  ![e].ConsumedFacts = @ \o h1[p].ConsumedFacts],
                              merged |-> merged]
                        ELSE [heap |-> h1,
                              merged |-> Append(merged, [key |-> key, ptr |-> p])]
         IN  Only({ mergeLoop(n.heap, list, i + 1, n.merged) : n \in {next} })

\* the number of entries of the map mergeRules builds
mergedCount(heap, list) == Len(mergeLoop(heap, list, 1, <<>>).merged)

mergeRules_keepLast(heap, list, order) ==
    LET r == mergeLoop(heap, list, 1, <<>>)
        last(k) == CHOOSE i \in 1..Len(list) :
                      /\ conditionsKey(r.heap[list[i]].Conditions) = r.merged[k].key
                      /\ \A j \in (i + 1)..Len(list) :
                            conditionsKey(r.heap[list[j]].Conditions) # r.merged[k].key
    IN  [heap |-> r.heap,
         out  |-> [k \in 1..Len(r.merged) |-> list[last(order[k])]]]

\* mergeRules: the second loop ranges over the map, whose iteration order Go
\* leaves open; order is the permutation of the entries this run took
mergeRules(heap, list, order) ==
    LET r == mergeLoop(heap, list, 1, <<>>)
    IN  [heap |-> r.heap,
         out  |-> [k \in 1..Len(r.merged) |-> r.merged[order[k]].ptr]]

getRulePriority(heap, p) == IF p # 0 THEN heap[p].Priority ELSE 0

RECURSIVE insertRule(_, _, _)
\* inner loop of the insertion sort of prioritizeRules: the less function is
\* priorityI > priorityJ
insertRule(heap, sorted, p) ==
    IF Len(sorted) > 0
       /\ getRulePriority(heap, p) > getRulePriority(heap, sorted[Len(sorted)])
        THEN Append(insertRule(heap, SubSeq(sorted, 1, Len(sorted) - 1), p),
                    sorted[Len(sorted)])
        ELSE Append(sorted, p)

RECURSIVE stableSortRules(_, _, _, _)
stableSortRules(heap, list, i, sorted) ==
    IF i > Len(list) THEN sorted
    ELSE stableSortRules(heap, list, i + 1, insertRule(heap, sorted, list[i]))

prioritizeRules_ascending(heap, rulesToPrioritize) ==
    [in  |-> rulesToPrioritize,
     out |-> [i \in 1..Len(rulesToPrioritize) |->
                stableSortRules(heap, rulesToPrioritize, 1, <<>>)
                    [Len(rulesToPrioritize) + 1 - i]]]

\* prioritizeRules: in is the caller's slice after the call (the sort works
\* on a copy), out the slice returned
prioritizeRules(heap, rulesToPrioritize) ==
    [in  |-> rulesToPrioritize,
     out |-> stableSortRules(heap, rulesToPrioritize, 1, <<>>)]

\* equalConditions that compares the nested lists too
equalConditions_nested(c1, c2) == c1 = c2

equalCondition(c1, c2) ==
    /\ c1.Fact = c2.Fact
    /\ c1.Operator = c2.Operator
    /\ c1.ValueType = c2.ValueType
    /\ DeepEqual(c1.Value, c2.Value)

equalConditions(c1, c2) ==
    /\ Len(c1.All) = Len(c2.All)
    /\ Len(c1.Any) = Len(c2.Any)
    /\ \A i \in 1..Len(c1.All) : equalCondition(c1.All[i], c2.All[i])
    /\ \A i \in 1..Len(c1.Any) : equalCondition(c1.Any[i], c2.Any[i])

containsCondition(conditions, condition) ==
    \E i \in 1..Len(conditions) : equalCondition(conditions[i], condition)

canBeSimplified(condition) ==
    /\ Len(condition.All) >= 2
    /\ \E i \in 1..(Len(condition.All) - 1) : \E j \in (i + 1)..Len(condition.All) :
          condition.All[i].Fact = condition.All[j].Fact

RECURSIVE firstPerFact(_, _, _)
\* the loop of performLogicalSimplification: newAll after the i-th element on
firstPerFact(conds, i, newAll) ==
    IF i > Len(conds) THEN newAll
    ELSE firstPerFact(conds, i + 1,
           IF \E k \in 1..Len(newAll) : newAll[k].Fact = conds[i].Fact
               THEN newAll ELSE Append(newAll, conds[i]))

performLogicalSimplification(condition) ==
    [condition EXCEPT !.All = firstPerFact(condition.All, 1, <<>>)]

RECURSIVE simplifyCondition(_)
RECURSIVE dedupLoop(_, _, _)
\* the loop of simplifyAndDedupConditions from the i-th condition on
dedupLoop(conditions, i, simplified) ==
    IF i > Len(conditions) THEN simplified
    ELSE LET simplifiedCond == simplifyCondition(conditions[i])
         IN  dedupLoop(conditions, i + 1,
               IF containsCondition(simplified, simplifiedCond)
                   THEN simplified ELSE Append(simplified, simplifiedCond))

simplifyAndDedupConditions(conditions) == dedupLoop(conditions, 1, <<>>)

simplifyCondition(condition) ==
    LET simplified == [condition EXCEPT !.All = simplifyAndDedupConditions(condition.All),
                                        !.Any = simplifyAndDedupConditions(condition.Any)]
    IN  IF canBeSimplified(simplified) THEN performLogicalSimplification(simplified)
        ELSE simplified

simplifyRuleConditions(conditions) ==
    [All |-> simplifyAndDedupConditions(conditions.All),
     Any |-> simplifyAndDedupConditions(conditions.Any)]

RECURSIVE simplifyLoop(_, _, _, _)
\* the loop of simplifyConditions: a rule whose simplified conditions are not
\* equalConditions to its own is replaced by a new rule object
simplifyLoop(heap, list, i, out) ==
    IF i > Len(list) THEN [heap |-> heap, out |-> out]
    ELSE LET rule == heap[list[i]]
             simplifiedConditions == simplifyRuleConditions(rule.Conditions)
             next == IF ~equalConditions(simplifiedConditions, rule.Conditions)
                       THEN [heap |-> Append(heap,
                                        [rule EXCEPT !.Conditions = simplifiedConditions]),
                             out  |-> Append(out, Len(heap) + 1)]
                       ELSE [heap |-> heap, out |-> Append(out, list[i])]
         IN  Only({ simplifyLoop(n.heap, list, i + 1, n.out) : n \in {next} })

simplifyConditions(heap, rulesToSimplify) == simplifyLoop(heap, rulesToSimplify, 1, <<>>)

\* OptimizeRules: merge, prioritize, simplify; precomputeExpressions and
\* analyzeDependencies return their argument.  in is the caller's slice after
\* the call, heap the rule objects after the call, out the slice returned.
OptimizeRules(heap, validatedRules, order) ==
    Only({ Only({ [heap |-> s.heap, in |-> validatedRules, out |-> s.out] :
                    s \in {simplifyConditions(m.heap,
                                              prioritizeRules(m.heap, m.out).out)} }) :
             m \in {mergeRules(heap, validatedRules, order)} })

(***************************************************************************)
(* Validating parser.  A rule document is the rule json.Unmarshal made of  *)
(* it: numbers are float64, an absent field is the zero value, an absent   *)
(* value is nil.  err is "none" or "error".                                *)
(***************************************************************************)
getTypeString(value) ==
    IF value.gt \in {"int", "int64"} THEN "int"
    ELSE IF value.gt = "float64" THEN (IF value.n % 2 = 0 THEN "int" ELSE "float")
    ELSE IF value.gt = "string" THEN "string"
    ELSE IF value.gt = "bool" THEN "bool"
    ELSE "unknown"

isOperatorValidForType(operator, valueType) ==
    IF valueType \in {"int", "float"}
        THEN operator \in {"equal", "notEqual", "lessThan", "lessThanOrEqual",
                           "greaterThan", "greaterThanOrEqual"}
    ELSE IF valueType = "string"
        THEN operator \in {"equal", "notEqual", "contains", "notContains"}
    ELSE IF valueType = "bool" THEN operator \in {"equal", "notEqual"}
    ELSE FALSE

operatorAliases ==
    ("=" :> "equal") @@ ("!=" :> "notEqual") @@ ("<" :> "lessThan") @@
    ("<=" :> "lessThanOrEqual") @@ (">" :> "greaterThan") @@
    (">=" :> "greaterThanOrEqual")

NormalizeOperator(operator) ==
    IF operator \in DOMAIN operatorAliases THEN operatorAliases[operator] ELSE operator

RECURSIVE validateCondition(_)
RECURSIVE validateNestedConditions(_)
\* validateNestedConditions: each element is validated as a copy
validateNestedConditions(conditions) ==
    IF \E i \in 1..Len(conditions) : validateCondition(conditions[i]).err # "none"
        THEN "error" ELSE "none"

\* validateCondition: err, and cond, the condition object as the call left it
validateCondition(condition) ==
    LET inferredType == getTypeString(condition.Value)
        \* the block for an empty ValueType
        c1 == IF condition.ValueType # "" THEN condition
              ELSE IF inferredType = "int" /\ condition.Value.gt = "float64"
                  THEN [condition EXCEPT !.ValueType = inferredType,
                                         !.Value = Int64V(TruncHalves(condition.Value.n))]
              ELSE [condition EXCEPT !.ValueType = inferredType]
        inferFails == /\ condition.ValueType = ""
                      /\ \/ inferredType = "int" /\ condition.Value.gt # "float64"
                         \/ inferredType \notin {"int", "float", "string", "bool"}
        nestedErr == IF validateNestedConditions(c1.All) # "none" THEN "error"
                     ELSE validateNestedConditions(c1.Any)
    IN  IF inferFails THEN [err |-> "error", cond |-> c1]
        ELSE IF c1.Fact = "" /\ (Len(c1.All) > 0 \/ Len(c1.Any) > 0)
            THEN [err |-> nestedErr, cond |-> c1]
        ELSE IF c1.ValueType # getTypeString(c1.Value) THEN [err |-> "error", cond |-> c1]
        ELSE IF c1.Fact = "" THEN [err |-> "error", cond |-> c1]
        ELSE IF ~isOperatorValidForType(NormalizeOperator(c1.Operator), c1.ValueType)
            THEN [err |-> "error", cond |-> c1]
        ELSE [err |-> nestedErr, cond |-> c1]

hasRedundantConditions(conditions) ==
    \E i \in 1..Len(conditions) : \E j \in (i + 1)..Len(conditions) :
        equalCondition(conditions[i], conditions[j])

compareValuesForEquality(v1, v2, valueType) ==
    IF valueType \in {"int", "float"}
        THEN v1.gt = "float64" /\ v2.gt = "float64" /\ v1.n = v2.n
    ELSE IF valueType = "string" THEN v1.gt = "string" /\ v2.gt = "string" /\ v1.s = v2.s
    ELSE IF valueType = "bool" THEN v1.gt = "bool" /\ v2.gt = "bool" /\ v1.b = v2.b
    ELSE FALSE

isContradictory(cond1, cond2) ==
    LET valueType == IF cond1.ValueType = "" THEN getTypeString(cond1.Value)
                     ELSE cond1.ValueType
    IN  /\ cond1.Fact = cond2.Fact
        /\ \/ /\ cond1.Operator = "equal" /\ cond2.Operator = "notEqual"
              /\ DeepEqual(cond1.Value, cond2.Value)
           \/ /\ cond1.Operator = "notEqual" /\ cond2.Operator = "equal"
              /\ DeepEqual(cond1.Value, cond2.Value)
           \/ /\ cond1.Operator = "lessThan" /\ cond2.Operator = "greaterThanOrEqual"
              /\ compareValuesForEquality(cond1.Value, cond2.Value, valueType)
           \/ /\ cond1.Operator = "lessThanOrEqual" /\ cond2.Operator = "greaterThan"
              /\ compareValuesForEquality(cond1.Value, cond2.Value, valueType)
           \/ /\ cond1.Operator = "greaterThan" /\ cond2.Operator = "lessThanOrEqual"
              /\ compareValuesForEquality(cond2.Value, cond1.Value, valueType)
           \/ /\ cond1.Operator = "greaterThanOrEqual" /\ cond2.Operator = "lessThan"
              /\ compareValuesForEquality(cond2.Value, cond1.Value, valueType)

hasContradictoryConditions(conditions) ==
    \E i \in 1..Len(conditions) : \E j \in (i + 1)..Len(conditions) :
        isContradictory(conditions[i], conditions[j])

isAmbiguous(cond1, cond2) ==
    /\ cond1.Fact = cond2.Fact
    /\ cond1.Operator = cond2.Operator
    /\ cond1.ValueType = cond2.ValueType
    /\ ~DeepEqual(cond1.Value, cond2.Value)

\* hasAmbiguousConditions: the groups by fact keep the list order, so the pairs
\* checked are the pairs i < j of the list with the same fact
hasAmbiguousConditions(conditions) ==
    \E i \in 1..Len(conditions) : \E j \in (i + 1)..Len(conditions) :
        /\ conditions[i].Fact = conditions[j].Fact
        /\ isAmbiguous(conditions[i], conditions[j])

\* validateConditions: the loops validate copies of the elements, so the
\* conditions themselves stay as they are
validateConditions(conditions) ==
    IF \E i \in 1..Len(conditions.All) : validateCondition(conditions.All[i]).err # "none"
        THEN "error"
    ELSE IF \E i \in 1..Len(conditions.Any) : validateCondition(conditions.Any[i]).err # "none"
        THEN "error"
    ELSE IF hasRedundantConditions(conditions.All) THEN "error"
    ELSE IF hasRedundantConditions(conditions.Any) THEN "error"
    ELSE IF hasContradictoryConditions(conditions.All) THEN "error"
    ELSE IF hasContradictoryConditions(conditions.Any) THEN "error"
    ELSE IF hasAmbiguousConditions(conditions.Any) THEN "error"
    ELSE "none"

\* ParseRule on a well-formed document: the rule returned, or an error
ParseRule(rule) ==
    IF Len(rule.Conditions.All) = 0 /\ Len(rule.Conditions.Any) = 0
        THEN [err |-> "error", rule |-> <<>>]
    ELSE IF validateConditions(rule.Conditions) # "none"
        THEN [err |-> "error", rule |-> <<>>]
    ELSE [err |-> "none", rule |-> <<rule>>]

(***************************************************************************)
(* Inputs of the optimizer specifications                                  *)
(***************************************************************************)
MaxOptRules  == 2
MaxPrioRules == 3

LeafT2 == Leaf("temperature", "lessThan", Num(40), "int")

\* the condition trees of the rules that are optimized; all of them but
\* the one with the repeated leaf pass ParseRule, the one with two leaves on
\* temperature in a nested list included
OptConditions ==
    { [All |-> <<LeafT>>, Any |-> <<>>],
      [All |-> <<LeafH>>, Any |-> <<>>],
      [All |-> <<LeafT, LeafH>>, Any |-> <<>>],
      [All |-> <<LeafH, LeafT>>, Any |-> <<>>],
      [All |-> <<>>, Any |-> <<LeafH, LeafO>>],
      [All |-> <<LeafT, Block("bool", <<>>, <<LeafO, LeafH>>)>>, Any |-> <<>>],
      [All |-> <<LeafO, Block("bool", <<LeafT, LeafT2>>, <<>>)>>, Any |-> <<>>],
      [All |-> <<LeafO, LeafO, Block("bool", <<LeafT, LeafT2>>, <<>>)>>, Any |-> <<>>] }

RuleNames == <<"R1", "R2", "R3", "R4">>

\* the i-th rule of a list has its own actions and fact lists
OptActions ==
    << <<ActAc>>,
       <<ActFan, Action("updateFact", "ac_status", BoolV(FALSE))>>,
       <<Action("updateFact", "fan_status", BoolV(FALSE))>>,
       <<ActAc, ActFan>> >>

OptProduced == << <<"ac_status">>, <<"fan_status", "ac_status">>, <<"fan_status">>,
                  <<"ac_status", "fan_status">> >>

OptRule(i, c, prio) ==
    Rule(RuleNames[i], prio, c.All, c.Any, OptActions[i], OptProduced[i],
         <<"temperature", "humidity", "room_occupied">>)

\* the rule lists of length 1..n whose i-th rule has conditions of C and a
\* priority of P
RuleLists(C, P, n) ==
    UNION { { [i \in 1..k |-> OptRule(i, cs[i], ps[i])] :
                cs \in [1..k -> C], ps \in [1..k -> P] } : k \in 1..n }

\* the rules the pointers of list point at
Deref(heap, list) == [i \in 1..Len(list) |-> heap[list[i]]]

\* what a call returned: the pointers and the rules as they were then
Returned(heap, out) == [ptrs |-> out, rules |-> Deref(heap, out)]

\* the fact index of the compilation unit the optimized rules go into
OptContext ==
    registerFacts(EmptyMap,
        <<"temperature", "humidity", "room_occupied", "ac_status", "fan_status">>, 1)

(***************************************************************************)
(* SpecOpt: a list of rule objects is handed to OptimizeRules, and then a  *)
(* second call gets the same list, the list the first call returned, or a  *)
(* fresh list of equal rules.                                              *)
(***************************************************************************)
InitOpt ==
    /\ pc = "optimize"
    /\ rulesIn \in RuleLists(OptConditions, {0, 1}, MaxOptRules)
    /\ ruleHeap = rulesIn
    /\ inSlice = [i \in 1..Len(rulesIn) |-> i]
    /\ optOut = NoOutput
    /\ optOut2 = NoOutput
    /\ mode = "none"
    /\ ctx = OptContext
    /\ comp = NoCompiler
    /\ compiled = NoResult
    /\ factsIn = EmptyMap
    /\ vm = NoVM
    /\ fetched = {}
    /\ doc = NoDoc
    /\ parsed = NoParse

\* OptimizeRules(inSlice)
DoOptimize ==
    /\ pc = "optimize"
    /\ \E order \in Permutations(1..mergedCount(ruleHeap, inSlice)) :
          \E r \in {OptimizeRules(ruleHeap, inSlice, order)} :
              /\ ruleHeap' = r.heap
              /\ inSlice' = r.in
              /\ optOut' = Returned(r.heap, r.out)
    /\ pc' = "optimized"
    /\ UNCHANGED <<rulesIn, optOut2, mode, vmVars, parseVars>>

\* a second OptimizeRules call, on the caller's list again
DoOptimizeSame ==
    /\ pc = "optimized"
    /\ \E order \in Permutations(1..mergedCount(ruleHeap, inSlice)) :
          \E r \in {OptimizeRules(ruleHeap, inSlice, order)} :
              /\ ruleHeap' = r.heap
              /\ inSlice' = r.in
              /\ optOut2' = Returned(r.heap, r.out)
    /\ mode' = "same"
    /\ pc' = "optimized2"
    /\ UNCHANGED <<rulesIn, optOut, vmVars, parseVars>>

\* a second OptimizeRules call, on the list the first call returned
DoOptimizeOutput ==
    /\ pc = "optimized"
    /\ \E order \in Permutations(1..mergedCount(ruleHeap, optOut.ptrs)) :
          \E r \in {OptimizeRules(ruleHeap, optOut.ptrs, order)} :
              /\ ruleHeap' = r.heap
              /\ optOut2' = Returned(r.heap, r.out)
    /\ mode' = "output"
    /\ pc' = "optimized2"
    /\ UNCHANGED <<rulesIn, inSlice, optOut, vmVars, parseVars>>

\* a second OptimizeRules call, on new rule objects equal to the ones the
\* first call was given
DoOptimizeFresh ==
    /\ pc = "optimized"
    /\ LET h     == ruleHeap \o rulesIn
           fresh == [i \in 1..Len(rulesIn) |-> Len(ruleHeap) + i]
       IN  \E order \in Permutations(1..mergedCount(h, fresh)) :
              \E r \in {OptimizeRules(h, fresh, order)} :
                  /\ ruleHeap' = r.heap
                  /\ optOut2' = Returned(r.heap, r.out)
    /\ mode' = "fresh"
    /\ pc' = "optimized2"
    /\ UNCHANGED <<rulesIn, inSlice, optOut, vmVars, parseVars>>

NextOpt == DoOptimize \/ DoOptimizeSame \/ DoOptimizeOutput \/ DoOptimizeFresh

SpecOpt == InitOpt /\ [][NextOpt]_vars

(***************************************************************************)
(* SpecPrio: a list of rule objects is handed to prioritizeRules.          *)
(***************************************************************************)
InitPrio ==
    /\ pc = "prioritize"
    /\ rulesIn \in RuleLists({[All |-> <<LeafT>>, Any |-> <<>>]}, {0, 1, 2, 7},
                             MaxPrioRules)
    /\ ruleHeap = rulesIn
    /\ inSlice = [i \in 1..Len(rulesIn) |-> i]
    /\ optOut = NoOutput
    /\ optOut2 = NoOutput
    /\ mode = "none"
    /\ ctx = OptContext
    /\ comp = NoCompiler
    /\ compiled = NoResult
    /\ factsIn = EmptyMap
    /\ vm = NoVM
    /\ fetched = {}
    /\ doc = NoDoc
    /\ parsed = NoParse

\* prioritizeRules(inSlice)
DoPrioritize ==
    /\ pc = "prioritize"
    /\ LET r == prioritizeRules(ruleHeap, inSlice)
       IN  /\ inSlice' = r.in
           /\ optOut' = Returned(ruleHeap, r.out)
    /\ pc' = "prioritized"
    /\ UNCHANGED <<rulesIn, ruleHeap, optOut2, mode, vmVars, parseVars>>

NextPrio == DoPrioritize

SpecPrio == InitPrio /\ [][NextPrio]_vars

(***************************************************************************)
(* Claims on the optimizer                                                 *)
(***************************************************************************)
\* the result of compiling an optimizer output with a new Compiler over the
\* fact index of the compilation unit
CompiledFrom(rs) == CompileResult(Compile(NewCompiler(ctx), rs))

Names(rs) == [i \in 1..Len(rs) |-> rs[i].Name]

\* C4: two runs of OptimizeRules and Compile on equal rule lists with the
\* same fact index give the same output rules in the same order and the same
\* bytes.
C4_OptimizeCompileDeterministic ==
    (pc = "optimized2" /\ mode = "fresh") =>
        /\ Names(optOut2.rules) = Names(optOut.rules)
        /\ optOut2.rules = optOut.rules
        /\ CompiledFrom(optOut2.rules) = CompiledFrom(optOut.rules)

\* C5: for a list of rules that pass ParseRule, OptimizeRules applied to the
\* list OptimizeRules returned gives that list again: as many rules, in the
\* same order, with the same condition trees, action lists and fact lists.
C5_OptimizeIdempotent ==
    ( /\ pc = "optimized2"
      /\ mode = "output"
      /\ \A i \in 1..Len(rulesIn) : ParseRule(rulesIn[i]).err = "none" ) =>
        optOut2.rules = optOut.rules

\* the signature of the i-th input rule, and the input rules that share it
KeyOf(i) == conditionsKey(rulesIn[i].Conditions)
Group(i) == { j \in 1..Len(rulesIn) : KeyOf(j) = KeyOf(i) }
FirstOfGroup(i) == CHOOSE j \in Group(i) : \A k \in Group(i) : j <= k

RECURSIVE GroupActions(_, _)
\* the actions of the input rules j.. that share the signature of rule i, in
\* input order
GroupActions(i, j) ==
    IF j > Len(rulesIn) THEN <<>>
    ELSE (IF j \in Group(i) THEN rulesIn[j].Actions ELSE <<>>) \o GroupActions(i, j + 1)

\* the places of the output that hold a rule of the group of input rule i
OutputOf(i) ==
    { k \in 1..Len(optOut.rules) :
        optOut.rules[k].Name \in { rulesIn[j].Name : j \in Group(i) } }

\* C6: for the input rules that share one signature OptimizeRules returns
\* exactly one rule; it has the name and the priority of the first of them in
\* input order, and its actions are the actions of all of them, concatenated
\* in input order.
C6_MergeKeepsFirstConcatenatesActions ==
    pc = "optimized" =>
        \A i \in 1..Len(rulesIn) :
            /\ Cardinality(OutputOf(i)) = 1
            /\ \A k \in OutputOf(i) :
                  /\ optOut.rules[k].Name = rulesIn[FirstOfGroup(i)].Name
                  /\ optOut.rules[k].Priority = rulesIn[FirstOfGroup(i)].Priority
                  /\ optOut.rules[k].Actions = GroupActions(i, 1)

\* two rules whose condition lists differ in order were merged into one
C6_Witness ==
    /\ pc = "optimized"
    /\ Len(rulesIn) = 2
    /\ rulesIn[1].Conditions # rulesIn[2].Conditions
    /\ rulesIn[1].Priority # rulesIn[2].Priority
    /\ KeyOf(1) = KeyOf(2)
    /\ Len(optOut.rules) = 1
    /\ optOut.rules[1].Actions = rulesIn[1].Actions \o rulesIn[2].Actions

\* C7: what prioritizeRules returns is a permutation of the list it was
\* given, in descending order of priority, rules of equal priority in their
\* input order; the list it was given and the rules are as before.
C7_PrioritizeStableDescending ==
    pc = "prioritized" =>
        LET out == optOut.ptrs
            n   == Len(rulesIn)
        IN  /\ Len(out) = n
            /\ { out[k] : k \in 1..n } = 1..n
            /\ \A k \in 1..(n - 1) :
                  /\ rulesIn[out[k]].Priority >= rulesIn[out[k + 1]].Priority
                  /\ rulesIn[out[k]].Priority = rulesIn[out[k + 1]].Priority
                        => out[k] < out[k + 1]
            /\ inSlice = [i \in 1..n |-> i]
            /\ ruleHeap = rulesIn

\* three rules, two of them of the same priority, came back in another order
C7_Witness ==
    /\ pc = "prioritized"
    /\ Len(rulesIn) = 3
    /\ rulesIn[1].Priority = rulesIn[2].Priority
    /\ rulesIn[3].Priority > rulesIn[1].Priority
    /\ optOut.ptrs = <<3, 1, 2>>

\* the rule passes ParseRule
Validated(rule) == ParseRule(rule).err = "none"

IsLeaf(c) == Len(c.All) = 0 /\ Len(c.Any) = 0

SameLeaf(a, b) ==
    /\ a.Fact = b.Fact
    /\ a.Operator = b.Operator
    /\ a.ValueType = b.ValueType
    /\ a.Value = b.Value

RECURSIVE OnlyDuplicateLeavesRemoved(_, _, _, _)
\* the list after (from place j on) is the list before (from place i on)
\* without some leaves that are identical to a leaf at an earlier place of
\* before, and the same holds for the nested lists of the elements kept
OnlyDuplicateLeavesRemoved(before, i, after, j) ==
    IF i > Len(before) THEN j > Len(after)
    ELSE \/ /\ j <= Len(after)
            /\ SameLeaf(before[i], after[j])
            /\ OnlyDuplicateLeavesRemoved(before[i].All, 1, after[j].All, 1)
            /\ OnlyDuplicateLeavesRemoved(before[i].Any, 1, after[j].Any, 1)
            /\ OnlyDuplicateLeavesRemoved(before, i + 1, after, j + 1)
         \/ /\ IsLeaf(before[i])
            /\ \E k \in 1..(i - 1) : IsLeaf(before[k]) /\ SameLeaf(before[k], before[i])
            /\ OnlyDuplicateLeavesRemoved(before, i + 1, after, j)

\* every rule of the list handed to OptimizeRules passes ParseRule
AllValidated == \A i \in 1..Len(rulesIn) : Validated(rulesIn[i])

\* C8: when the rules handed to OptimizeRules are validated, the rule returned
\* for an input rule has a condition tree that is true on exactly the facts
\* the input rule's tree is true on, and the lists of a returned rule are the
\* (sorted) lists of the input rule with nothing removed but leaves identical
\* to an earlier leaf of the same list.
C8_OptimizerKeepsMeaning ==
    (pc = "optimized" /\ AllValidated) =>
        \A i \in 1..Len(rulesIn) :
            /\ OutputOf(i) # {}
            /\ \A k \in OutputOf(i) :
                 LET before == normalizeConditions(rulesIn[FirstOfGroup(i)].Conditions)
                     after  == optOut.rules[k].Conditions
                 IN  /\ \A f \in LoadedFacts :
                           EvalConditions(after, f) = EvalConditions(rulesIn[i].Conditions, f)
                     /\ OnlyDuplicateLeavesRemoved(before.All, 1, after.All, 1)
                     /\ OnlyDuplicateLeavesRemoved(before.Any, 1, after.Any, 1)

\* a validated rule whose nested all list holds two leaves on temperature has
\* been optimized, and the rule returned holds both leaves: it is false for
\* a temperature of 42 as the input rule is
C8_Witness ==
    /\ pc = "optimized"
    /\ AllValidated
    /\ Len(rulesIn) = 1
    /\ rulesIn[1].Conditions.All = <<LeafO, Block("bool", <<LeafT, LeafT2>>, <<>>)>>
    /\ Len(optOut.rules) = 1
    /\ \E e \in 1..Len(optOut.rules[1].Conditions.All) :
           LET nested == optOut.rules[1].Conditions.All[e].All
           IN  /\ Len(nested) = 2
               /\ {nested[1], nested[2]} = {LeafT, LeafT2}

\* ------------------------------------------------------------------------
\* ParseRule on one rule document (the state after json.Unmarshal)
\* ------------------------------------------------------------------------

\* longest root list of a document
MaxConds == 3

ParseOperators ==
    {"equal", "notEqual", "lessThan", "lessThanOrEqual", "greaterThan",
     "greaterThanOrEqual", "contains", "notContains",
     "=", "!=", "<", "<=", ">", ">=", "matches"}

\* JSON values as json.Unmarshal delivers them: every number is a float64
ParseValues == {Num(30), F64(61), StrV("John"), BoolV(TRUE)}

ParseTypes == {"", "int", "float", "string", "bool"}

DocOf(all, any) == Rule("R1", 0, all, any, <<ActAc>>, <<>>, <<>>)

\* documents with one leaf: every operator on every value and declared type
LeafDocs ==
    { DocOf(<<Leaf("temperature", op, v, vt)>>, <<>>) :
        op \in ParseOperators, v \in ParseValues, vt \in ParseTypes }

\* elements of the lists of the larger documents: leaves, nesting conditions
\* with two identical leaves in one nested list, a nesting condition without
\* duplicates, one nested two levels deep and a leaf that carries a list
ParsePool ==
    { LeafT, LeafH, LeafO,
      Block("bool", <<LeafT, LeafT>>, <<>>),
      Block("bool", <<>>, <<LeafH, LeafH>>),
      Block("int", <<LeafT, LeafH>>, <<>>),
      Block("bool", <<Block("int", <<>>, <<LeafO, LeafT, LeafO>>)>>, <<>>),
      [LeafH EXCEPT !.All = <<LeafT, LeafT>>] }

ListDocs ==
    { DocOf(l, <<>>) : l \in SeqsUpTo(ParsePool, MaxConds) }
    \cup { DocOf(<<>>, l) : l \in SeqsUpTo(ParsePool, MaxConds) }

\* documents with two leaves on one fact in one root list: every pair of
\* operators, the same value or two different values
PairDocs ==
    { DocOf(<<Leaf("temperature", op1, Num(30), "int"),
              Leaf("temperature", op2, v, "int")>>, <<>>) :
        op1 \in ParseOperators, op2 \in ParseOperators, v \in {Num(30), Num(35)} }
    \cup
    { DocOf(<<>>, <<Leaf("temperature", op1, Num(30), "int"),
                    Leaf("temperature", op2, v, "int")>>) :
        op1 \in ParseOperators, op2 \in ParseOperators, v \in {Num(30), Num(35)} }

\* a leaf with an operator its type does not have
LeafBad == Leaf("name", "lessThan", StrV("John"), "string")

\* the lists nested in the conditions that only nest
NestLists == SeqsUpTo({LeafT, LeafH, LeafO, LeafBad}, 2)

\* a condition without fact, operator, value and valueType that holds the
\* list l as its all or its any list, once or twice nested
NestOf(l, asAll, depth) ==
    LET inner == IF asAll THEN Block("", l, <<>>) ELSE Block("", <<>>, l)
    IN  IF depth = 1 THEN inner ELSE Block("", <<inner>>, <<>>)

\* documents whose root all list holds such a condition, alone or after a leaf
NestDocs ==
    { DocOf(pre \o <<NestOf(l, asAll, depth)>>, <<>>) :
        l \in NestLists, asAll \in BOOLEAN, depth \in {1, 2},
        pre \in {<<>>, <<LeafF>>} }

ParseDocs == LeafDocs \cup ListDocs \cup PairDocs \cup NestDocs

InitParse ==
    /\ pc = "parse"
    /\ doc \in ParseDocs
    /\ parsed = NoParse
    /\ rulesIn = <<>>
    /\ ruleHeap = <<>>
    /\ inSlice = <<>>
    /\ optOut = NoOutput
    /\ optOut2 = NoOutput
    /\ mode = "none"
    /\ ctx = OptContext
    /\ comp = NoCompiler
    /\ compiled = NoResult
    /\ factsIn = EmptyMap
    /\ vm = NoVM
    /\ fetched = {}

\* ParseRule(doc)
DoParse ==
    /\ pc = "parse"
    /\ \E r \in {ParseRule(doc)} : parsed' = r
    /\ pc' = "parsed"
    /\ UNCHANGED <<rulesIn, doc, vmVars, optVars>>

NextParse == DoParse

SpecParse == InitParse /\ [][NextParse]_vars

\* the operator table of the rule format, read after alias canonicalization
SpecCanonical(op) ==
    CASE op = "="  -> "equal"
      [] op = "!=" -> "notEqual"
      [] op = "<"  -> "lessThan"
      [] op = "<=" -> "lessThanOrEqual"
      [] op = ">"  -> "greaterThan"
      [] op = ">=" -> "greaterThanOrEqual"
      [] OTHER     -> op

SpecAllowed(op, vt) ==
    CASE vt \in {"int", "float"} ->
             op \in {"equal", "notEqual", "lessThan", "lessThanOrEqual",
                     "greaterThan", "greaterThanOrEqual"}
      [] vt = "string" -> op \in {"equal", "notEqual", "contains", "notContains"}
      [] vt = "bool"   -> op \in {"equal", "notEqual"}
      [] OTHER         -> FALSE

\* the type of a value of the rule format under the declared type vt: a
\* number without a fractional part is an int if and only if vt is int or
\* not given, and a float otherwise (int and float have the same row of the
\* operator table)
SpecTypeOf(v, vt) ==
    CASE v.gt = "string"  -> "string"
      [] v.gt = "bool"    -> "bool"
      [] v.gt = "float64" -> IF v.n % 2 = 0 /\ vt \in {"int", ""} THEN "int" ELSE "float"
      [] OTHER            -> "int"

OneLeafDoc ==
    /\ Len(doc.Conditions.All) = 1
    /\ Len(doc.Conditions.Any) = 0
    /\ IsLeaf(doc.Conditions.All[1])
    /\ doc.Conditions.All[1].Fact # ""
    /\ doc.Conditions.All[1].ValueType
           \in {"", SpecTypeOf(doc.Conditions.All[1].Value, doc.Conditions.All[1].ValueType)}

\* C9: a leaf with a non-empty fact whose value has the declared type (or no
\* declared type), a number without fractional part counting as int when
\* the declared type is int or absent and as float when it is float, is
\* accepted by ParseRule exactly if its operator, aliases replaced by their
\* canonical names, is in the table row of the value's type.
C9_OperatorTypeCompatibility ==
    (pc = "parsed" /\ OneLeafDoc) =>
        LET leaf == doc.Conditions.All[1]
        IN  (parsed.err = "none") <=>
                SpecAllowed(SpecCanonical(leaf.Operator),
                            SpecTypeOf(leaf.Value, leaf.ValueType))

RECURSIVE HasDuplicateLeaves(_)
\* some list of the tree, at any depth, holds two identical leaves
HasDuplicateLeaves(list) ==
    \/ \E i, j \in 1..Len(list) :
           /\ i < j
           /\ IsLeaf(list[i]) /\ IsLeaf(list[j])
           /\ list[i].Fact # ""
           /\ SameLeaf(list[i], list[j])
    \/ \E i \in 1..Len(list) :
           HasDuplicateLeaves(list[i].All) \/ HasDuplicateLeaves(list[i].Any)

\* C10: ParseRule returns an error for every rule that has, in its root lists
\* or in a list nested at any depth, two identical leaves.
C10_DuplicateLeavesRejected ==
    (pc = "parsed" /\ ( \/ HasDuplicateLeaves(doc.Conditions.All)
                        \/ HasDuplicateLeaves(doc.Conditions.Any) )) =>
        parsed.err # "none"

\* the pairs of canonical operators that contradict each other on one value
SpecContradicts(op1, op2) ==
    {op1, op2} \in { {"equal", "notEqual"},
                     {"lessThan", "greaterThanOrEqual"},
                     {"lessThanOrEqual", "greaterThan"} }

\* the list holds two leaves on one fact and one value whose operators,
\* aliases replaced by their canonical names, contradict each other
HasContradictingLeaves(list) ==
    \E i, j \in 1..Len(list) :
        /\ i # j
        /\ IsLeaf(list[i]) /\ IsLeaf(list[j])
        /\ list[i].Fact # ""
        /\ list[i].Fact = list[j].Fact
        /\ list[i].Value = list[j].Value
        /\ SpecContradicts(SpecCanonical(list[i].Operator),
                           SpecCanonical(list[j].Operator))

\* C11: ParseRule returns an error for every rule whose root all list or root
\* any list holds two leaves on the same fact and value with contradicting
\* operators, aliases counted as the operators they stand for, in whichever
\* order the two leaves come.
C11_ContradictingLeavesRejected ==
    (pc = "parsed" /\ ( \/ HasContradictingLeaves(doc.Conditions.All)
                        \/ HasContradictingLeaves(doc.Conditions.Any) )) =>
        parsed.err # "none"

\* a condition that only nests: no fact, operator, value or valueType, and
\* at least one nested list
IsPureNesting(c) ==
    /\ c.Fact = "" /\ c.Operator = "" /\ c.Value = NilV /\ c.ValueType = ""
    /\ (Len(c.All) > 0 \/ Len(c.Any) > 0)

\* a leaf the rule format allows
IsValidLeaf(c) ==
    /\ IsLeaf(c)
    /\ c.Fact # ""
    /\ c.ValueType \in {"", SpecTypeOf(c.Value, c.ValueType)}
    /\ SpecAllowed(SpecCanonical(c.Operator), SpecTypeOf(c.Value, c.ValueType))

RECURSIVE IsValidList(_)
\* every element is a valid leaf or a condition that only nests valid lists
IsValidList(list) ==
    \A i \in 1..Len(list) :
        \/ IsValidLeaf(list[i])
        \/ /\ IsPureNesting(list[i])
           /\ IsValidList(list[i].All)
           /\ IsValidList(list[i].Any)

\* a rule with a nesting-only condition in its all list, all leaves valid,
\* no list with two identical leaves
PureNestingDoc ==
    /\ Len(doc.Conditions.Any) = 0
    /\ \E i \in 1..Len(doc.Conditions.All) : IsPureNesting(doc.Conditions.All[i])
    /\ IsValidList(doc.Conditions.All)
    /\ ~HasDuplicateLeaves(doc.Conditions.All)

\* C12: ParseRule returns the rule and no error for a rule whose all list
\* holds a condition that only nests (no fact, operator, value, valueType)
\* a non-empty list of valid leaves, one or two levels deep.
C12_PureNestingAccepted ==
    (pc = "parsed" /\ PureNestingDoc) =>
        (parsed.err = "none" /\ parsed.rule = <<doc>>)

\* ------------------------------------------------------------------------
\* SpecCompile: Compile on one compilation unit, over action types, facts
\* the context does not know and contexts with large indices
\* ------------------------------------------------------------------------

\* longest action list of the rule under test
MaxActions == 2
\* number of further rules compiled before or after it
MaxFollow == 1

ActSend  == Action("sendMessage", "notify", StrV("John"))
ActStore == Action("updateStore", "ac_status", BoolV(TRUE))

\* an updateFact whose value is a number
ActNum   == Action("updateFact", "fan_status", Num(30))

CompileActions == {ActAc, ActNum, ActSend, ActStore}

CompileActionLists == {<<>>} \cup SeqsUpTo(CompileActions, MaxActions)

CompileConditions ==
    { [All |-> <<LeafT>>, Any |-> <<>>],
      [All |-> <<LeafF>>, Any |-> <<>>],
      [All |-> <<LeafT, LeafO>>, Any |-> <<>>],
      [All |-> <<>>, Any |-> <<LeafH, LeafO>>],
      [All |-> <<LeafH, Block("bool", <<>>, <<LeafO, LeafT>>)>>, Any |-> <<>>] }

CompileRules ==
    { Rule("R1", 0, c.All, c.Any, a, <<"ac_status">>,
           <<"temperature", "humidity", "room_occupied">>) :
        c \in CompileConditions, a \in CompileActionLists }

FollowRules ==
    { Rule("R2", 0, <<LeafT>>, <<>>, <<ActFan>>, <<"fan_status">>, <<"temperature">>),
      Rule("R3", 0, <<>>, <<LeafH, LeafO>>, <<>>, <<>>,
           <<"humidity", "room_occupied">>) }

\* the compilation units: the rule under test first or last
CompileUnits ==
    { <<r>> \o t : r \in CompileRules, t \in {<<>>} \cup SeqsUpTo(FollowRules, MaxFollow) }
    \cup
    { t \o <<r>> : r \in CompileRules, t \in {<<>>} \cup SeqsUpTo(FollowRules, MaxFollow) }

\* the entries of FactIndex for the five facts when base other names were
\* registered before them
ShiftedContext(base) == [n \in DOMAIN OptContext |-> base + OptContext[n]]

\* FactIndex without the facts the rules produce
ConsumedOnlyContext == [n \in {"temperature", "humidity", "room_occupied"} |-> OptContext[n]]

CompileContexts ==
    {ShiftedContext(0), ShiftedContext(254), ShiftedContext(65531), ConsumedOnlyContext}

InitCompile ==
    /\ pc = "compile"
    /\ rulesIn \in CompileUnits
    /\ ctx \in CompileContexts
    /\ comp = NewCompiler(ctx)
    /\ compiled = NoResult
    /\ factsIn = EmptyMap
    /\ vm = NoVM
    /\ fetched = {}
    /\ ruleHeap = <<>>
    /\ inSlice = <<>>
    /\ optOut = NoOutput
    /\ optOut2 = NoOutput
    /\ mode = "none"
    /\ doc = NoDoc
    /\ parsed = NoParse

NextCompile == DoCompile

SpecCompile == InitCompile /\ [][NextCompile]_vars

\* Compile has returned
Compiled == pc \in {"loaded", "compile_failed"}

\* all actions of all rules of the unit, in order
RECURSIVE AllActions(_, _)
AllActions(rs, i) ==
    IF i > Len(rs) THEN <<>> ELSE rs[i].Actions \o AllActions(rs, i + 1)

\* the number of elements of the sequence q that satisfy Test
CountType(q, type) == Cardinality({ k \in 1..Len(q) : q[k].Type = type })
CountOpcode(q, opcode) == Cardinality({ k \in 1..Len(q) : q[k].Opcode = opcode })

RECURSIVE ListFacts(_)
\* the facts the leaves of a condition list name
ListFacts(list) ==
    UNION { (IF list[i].Fact # "" /\ IsLeaf(list[i]) THEN {list[i].Fact} ELSE {})
            \cup ListFacts(list[i].All) \cup ListFacts(list[i].Any) :
            i \in 1..Len(list) }

\* the facts a unit refers to: in its leaves and as targets of updateFact
UnitFacts(rs) ==
    UNION { ListFacts(rs[i].Conditions.All) \cup ListFacts(rs[i].Conditions.Any)
            \cup { rs[i].Actions[k].Target :
                     k \in { j \in 1..Len(rs[i].Actions) :
                               rs[i].Actions[j].Type = "updateFact" } } :
            i \in 1..Len(rs) }

\* C13: Compile succeeds when every action is an updateFact or a sendMessage
\* and every fact is in the context, and then emitted one UPDATE_FACT per
\* updateFact and one SEND_MESSAGE per sendMessage; with an action of another
\* type it returns an error and no bytes.
C13_ActionTypesCompiled ==
    Compiled =>
        LET acts == AllActions(rulesIn, 1)
        IN  /\ ( /\ \A k \in 1..Len(acts) : acts[k].Type \in {"updateFact", "sendMessage"}
                 /\ UnitFacts(rulesIn) \subseteq DOMAIN ctx ) =>
                    /\ compiled.err = "none"
                    /\ CountOpcode(comp.instructions, UPDATE_FACT) = CountType(acts, "updateFact")
                    /\ CountOpcode(comp.instructions, SEND_MESSAGE) = CountType(acts, "sendMessage")
            /\ (\E k \in 1..Len(acts) : acts[k].Type \notin {"updateFact", "sendMessage"}) =>
                    (compiled.err # "none" /\ compiled.bytes = <<>>)

\* ------------------------------------------------------------------------
\* SpecVM: VM.Run on byte sequences of any content
\* ------------------------------------------------------------------------

\* longest instruction body
MaxBody == 3

\* the bytes the const block of the opcodes gives a name (EQ_INT = 0 up to
\* ACTION_END = 42)
IsOpcode(b) == b \in 0..42

\* the bytes of the bodies: opcodes without and with operands, the operand
\* tags of decodeValue (0, 2, 3) and bytes that are no opcode of Run's switch
VMBytes ==
    {EQ_INT, LT_INT, LTE_INT, NOT, LOAD_FACT, 18, LOAD_CONST_INT, JUMP,
     JUMP_IF_TRUE, HALT, 200}

\* twelve header bytes: all zero, or version 1 with one rule
VMHeaders ==
    { <<0, 0, 0, 0, 0, 0, 0, 0, 0, 0, 0, 0>>,
      <<1, 0, 0, 0, 0, 0, 0, 0, 1, 0, 0, 0>>,
      <<HALT, 0, 0, 0, 0, 0, 0, 0, 0, 0, 0, 0>> }

VMBodies == {<<>>} \cup SeqsUpTo(VMBytes, MaxBody)

\* a header with a body, or a byte sequence too short to hold a header
VMPrograms ==
    { h \o b : h \in VMHeaders, b \in VMBodies }
    \cup SeqsUpTo({HALT, LOAD_CONST_INT, 200}, 2)
    \cup { SubSeq(h, 1, 10) : h \in VMHeaders }

InitVM ==
    /\ pc = "loaded"
    /\ factsIn = EmptyMap
    /\ \E code \in VMPrograms :
          /\ compiled = [bytes |-> code, err |-> "none"]
          /\ vm = NewVM(code)
    /\ rulesIn = <<>>
    /\ ctx = EmptyMap
    /\ comp = NoCompiler
    /\ fetched = {}
    /\ ruleHeap = <<>>
    /\ inSlice = <<>>
    /\ optOut = NoOutput
    /\ optOut2 = NoOutput
    /\ mode = "none"
    /\ doc = NoDoc
    /\ parsed = NoParse

NextVM == VMRunStart \/ VMRunStep

SpecVM == InitVM /\ [][NextVM]_vars

\* Run is about to fetch an opcode
Fetching == pc = "running" /\ vm.ip >= 0 /\ vm.ip < Len(vm.bytecode)

\* the opcode it fetches (0 when it fetches none)
Fetched == IF Fetching THEN vm.bytecode[vm.ip + 1] ELSE 0

\* the number of stack values an opcode pops
Pops(opcode) ==
    IF OperandType(opcode) # "" THEN 2
    ELSE IF opcode \in {NOT, JUMP_IF_TRUE, JUMP_IF_FALSE} THEN 1
    ELSE 0

\* the instruction to execute is one of the fatal cases: no opcode of the
\* set, fewer stack values than it pops, stack values of another type than
\* the opcode's, or a LOAD_FACT while no fact is in the map
FatalCase ==
    /\ Fetching
    /\ \/ ~IsOpcode(Fetched)
       \/ Len(vm.stack) < Pops(Fetched)
       \/ /\ OperandType(Fetched) # ""
          /\ Len(vm.stack) >= 2
          /\ \E k \in {Len(vm.stack) - 1, Len(vm.stack)} :
                 vm.stack[k].gt # OperandType(Fetched)
       \/ Fetched = LOAD_FACT /\ vm.facts = EmptyMap

\* C14: when the instruction to execute is a fatal case, Run ends in this
\* step with an error value that carries the ip, without panicking or
\* looping, and the facts are as they were.
C14_FatalCasesReturnErrorWithIP ==
    [][ FatalCase =>
            /\ vm'.status = "error"
            /\ vm'.errIP = vm'.ip
            /\ vm'.facts = vm.facts ]_vars

\* no byte of the bytecode is a jump opcode: there is no jump, forward or back
NoJumpBytes ==
    \A k \in 1..Len(vm.bytecode) :
        vm.bytecode[k] \notin {JUMP, JUMP_IF_TRUE, JUMP_IF_FALSE}

\* C15: on bytecode without a backward jump Run ends, and it ends by
\* returning: nil after HALT or at the end of the bytecode, an error
\* otherwise; it neither loops in the decoding of operands nor panics.
C15_RunTerminates ==
    NoJumpBytes =>
        /\ vm.status \in {"new", "running", "ok", "error"}
        /\ vm.status = "ok" =>
              \/ vm.ip >= Len(vm.bytecode)
              \/ \E e \in fetched : vm.bytecode[e.at + 1] = HALT

\* C16: Run starts at byte 12, never fetches an opcode from the twelve header
\* bytes, and on bytecode too short to hold a header it returns an error
\* without fetching any opcode.
C16_HeaderVerifiedBeforeRun ==
    /\ \A e \in fetched : e.at >= 12
    /\ (pc = "running" /\ fetched = {} /\ Len(vm.bytecode) >= 12) => vm.ip = 12
    /\ Len(vm.bytecode) < 12 =>
            (fetched = {} /\ (pc = "done" => vm.status = "error"))

\* the number that k little-endian bytes of b hold from byte i (0-based) on
RECURSIVE LEValue(_, _, _)
LEValue(b, i, k) == IF k = 0 THEN 0 ELSE b[i + 1] + 256 * LEValue(b, i + 1, k - 1)

\* the bytes of the instructions Compile emitted, in order
RECURSIVE InstructionBytes(_, _)
InstructionBytes(ins, i) ==
    IF i > Len(ins) THEN <<>>
    ELSE <<ins[i].Opcode>> \o ins[i].Operands \o InstructionBytes(ins, i + 1)

\* C17: the bytes of a successful Compile begin with twelve header bytes,
\* version 1 in the first two and the length of the body in the last four,
\* and the instruction body follows, as long as the instructions emitted, so
\* that the byte the VM starts at is the first opcode of the first rule.
C17_HeaderThenBody ==
    (pc = "loaded" /\ Len(comp.instructions) > 0) =>
        LET b == compiled.bytes
        IN  /\ Len(b) = 12 + Len(InstructionBytes(comp.instructions, 1))
            /\ LEValue(b, 0, 2) = 1
            /\ LEValue(b, 8, 4) = Len(b) - 12
            /\ readHeader(b) = 12
            /\ b[readHeader(b) + 1] = comp.instructions[1].Opcode

\* ------------------------------------------------------------------------
\* SpecReg: facts are registered into one compilation context, call after
\* call of updateContextWithRuleFacts
\* ------------------------------------------------------------------------

\* number of rules registered into one context
MaxRegistered == 2

RegConsumed ==
    { <<>>, <<"temperature">>, <<"humidity">>, <<"temperature", "humidity">>,
      <<"humidity", "temperature">>, <<"temperature", "temperature">> }

RegProduced ==
    { <<>>, <<"ac_status">>, <<"temperature">>, <<"fan_status", "ac_status">> }

RegRules ==
    { Rule("R1", 0, <<LeafT>>, <<>>, <<>>, p, c) : c \in RegConsumed, p \in RegProduced }

InitReg ==
    /\ pc = "register"
    /\ rulesIn = <<>>
    /\ ctx = EmptyMap
    /\ comp = NoCompiler
    /\ compiled = NoResult
    /\ factsIn = EmptyMap
    /\ vm = NoVM
    /\ fetched = {}
    /\ ruleHeap = <<>>
    /\ inSlice = <<>>
    /\ optOut = NoOutput
    /\ optOut2 = NoOutput
    /\ mode = "none"
    /\ doc = NoDoc
    /\ parsed = NoParse

\* updateContextWithRuleFacts(rules, context) for one more rule; rulesIn
\* keeps the rules registered so far
DoRegister ==
    /\ pc = "register"
    /\ Len(rulesIn) < MaxRegistered
    /\ \E r \in RegRules :
          /\ ctx' = updateContextWithRuleFacts(<<r>>, ctx, 1)
          /\ rulesIn' = Append(rulesIn, r)
    /\ UNCHANGED <<pc, comp, compiled, vm, factsIn, fetched, optVars, parseVars>>

NextReg == DoRegister

SpecReg == InitReg /\ [][NextReg]_vars

\* the names registered so far, in the order of the registrations
RECURSIVE RegisteredNames(_, _)
RegisteredNames(rs, i) ==
    IF i > Len(rs) THEN <<>>
    ELSE rs[i].ConsumedFacts \o rs[i].ProducedFacts \o RegisteredNames(rs, i + 1)

\* the names of a sequence without repetitions, in the order of their first
\* occurrence
RECURSIVE FirstSeen(_, _, _)
FirstSeen(names, i, seen) ==
    IF i > Len(names) THEN seen
    ELSE FirstSeen(names, i + 1,
                   IF \E k \in 1..Len(seen) : seen[k] = names[i] THEN seen
                   ELSE Append(seen, names[i]))

\* C18: FactIndex holds exactly the names registered so far, and the index
\* of a name is the number of different names registered before its first
\* registration: the indices are 0..n-1 without repetition, and no later
\* registration has changed one.
C18_FactIndexFirstComeFirstServed ==
    LET order == FirstSeen(RegisteredNames(rulesIn, 1), 1, <<>>)
    IN  /\ DOMAIN ctx = { order[k] : k \in 1..Len(order) }
        /\ \A k \in 1..Len(order) : ctx[order[k]] = k - 1

\* a name was registered again after other names, and three names are known
C18_Witness ==
    /\ Len(rulesIn) = 2
    /\ rulesIn[1].ConsumedFacts = <<"humidity", "temperature">>
    /\ rulesIn[2].ConsumedFacts = <<"temperature", "temperature">>
    /\ rulesIn[2].ProducedFacts = <<"fan_status", "ac_status">>
    /\ ctx["temperature"] = 1
    /\ ctx["ac_status"] = 3

\* ------------------------------------------------------------------------
\* Fact operands and jump targets of the compiled unit (SpecCompile)
\* ------------------------------------------------------------------------

RECURSIVE CondFacts(_)
RECURSIVE CondListFacts(_, _)
\* the fact names of the leaves Compile visits in a condition, in the order
\* of the visit: the all list of a condition, else its any list, else the
\* leaf itself
CondFacts(cond) ==
    IF Len(cond.All) > 0 THEN CondListFacts(cond.All, 1)
    ELSE IF Len(cond.Any) > 0 THEN CondListFacts(cond.Any, 1)
    ELSE <<cond.Fact>>

CondListFacts(list, i) ==
    IF i > Len(list) THEN <<>> ELSE CondFacts(list[i]) \o CondListFacts(list, i + 1)

RECURSIVE ActionFacts(_, _)
\* the targets of the updateFact actions, in order
ActionFacts(acts, i) ==
    IF i > Len(acts) THEN <<>>
    ELSE (IF acts[i].Type = "updateFact" THEN <<acts[i].Target>> ELSE <<>>)
         \o ActionFacts(acts, i + 1)

RECURSIVE EmittedFacts(_, _)
\* the fact names a unit refers to, one per LOAD_FACT and UPDATE_FACT that
\* its compilation is to emit, in the order of emission
EmittedFacts(rs, i) ==
    IF i > Len(rs) THEN <<>>
    ELSE CondListFacts(rs[i].Conditions.All, 1) \o CondListFacts(rs[i].Conditions.Any, 1)
         \o ActionFacts(rs[i].Actions, 1) \o EmittedFacts(rs, i + 1)

IsFactInstruction(ins) == ins.Opcode \in {LOAD_FACT, UPDATE_FACT}

\* the operand of the k-th emitted instruction as the returned bytecode has
\* it: the little-endian value of its operand bytes
OperandValue(ins) == LEValue(compiled.bytes, ins.BytecodePosition + 1, Len(ins.Operands))

\* C19: when Compile returns bytecode, its LOAD_FACT and UPDATE_FACT
\* instructions are one per referenced fact, in order, and the operand of
\* each has the value of the index FactIndex holds for the name (so one name
\* has one operand in all rules of the unit); when a referenced fact is not
\* in FactIndex, Compile returns an error and no bytes.
C19_FactOperandIsContextIndex ==
    Compiled =>
        LET names == EmittedFacts(rulesIn, 1)
            ins   == SelectSeq(comp.instructions, IsFactInstruction)
        IN  /\ compiled.err = "none" =>
                  /\ Len(ins) = Len(names)
                  /\ \A k \in 1..Len(ins) :
                        /\ names[k] \in DOMAIN ctx
                        /\ OperandValue(ins[k]) = ctx[names[k]]
            /\ ~(UnitFacts(rulesIn) \subseteq DOMAIN ctx) =>
                  /\ compiled.err = "error"
                  /\ compiled.bytes = <<>>

IsJumpInstruction(ins) == ins.Opcode \in {JUMP, JUMP_IF_TRUE, JUMP_IF_FALSE}

\* a 16-bit value read as a signed offset
Int16(u) == IF u >= 32768 THEN u - 65536 ELSE u

\* the position a resolved jump leads to: resolveLabelOffsets has written
\* labelOffset - placeholderPosition - 2 at placeholderPosition, the
\* BytecodePosition of the jump
JumpTarget(ins) ==
    ins.BytecodePosition + 2 + Int16(LEValue(compiled.bytes, ins.BytecodePosition, 2))

\* C20: in the bytecode Compile returns, every jump leads to a position
\* inside the bytecode, 0 <= p < size, the jumps to the rule_end label of
\* the last rule included.
C20_JumpTargetsInsideBytecode ==
    (Compiled /\ compiled.err = "none") =>
        \A k \in 1..Len(comp.instructions) :
            IsJumpInstruction(comp.instructions[k]) =>
                /\ 0 <= JumpTarget(comp.instructions[k])
                /\ JumpTarget(comp.instructions[k]) < Len(compiled.bytes)

\* ------------------------------------------------------------------------
\* Label resolution (SpecCompile)
\* ------------------------------------------------------------------------

\* the pending jumps of the compiler: (instruction, label) as recorded in
\* jumpsNeedingLabels
PendingJump(j) ==
    [ins   |-> comp.instructions[comp.jumpsNeedingLabels[j].instructionIndex + 1],
     label |-> comp.jumpsNeedingLabels[j].label]

\* the byte position of the operand of an instruction: the byte after its
\* opcode
OperandPosition(ins) == ins.BytecodePosition + 1

\* C21: after a successful Compile the two operand bytes of every pending
\* jump hold, little-endian, label_offset - (operand position + 2), so a jump
\* to the next instruction holds 0; when the label of a pending jump is not
\* bound, Compile returns an error.
C21_RelativeOffsetInOperandBytes ==
    Compiled =>
        /\ compiled.err = "none" =>
             \A j \in 1..Len(comp.jumpsNeedingLabels) :
                 LET ins == PendingJump(j).ins
                     rel == comp.labelOffsets[PendingJump(j).label]
                              - (OperandPosition(ins) + 2)
                 IN  LEValue(compiled.bytes, OperandPosition(ins), 2) = rel % 65536
        /\ (\E j \in 1..Len(comp.jumpsNeedingLabels) :
                comp.jumpsNeedingLabels[j].label \notin DOMAIN comp.labelOffsets)
             => compiled.err = "error"

\* C22: label resolution leaves every opcode byte where emitInstruction put
\* it, the opcode bytes of the jumps included, and leaves the length of the
\* bytecode as it was: in the bytecode Compile returns, the byte at the
\* BytecodePosition of every instruction is its opcode, and the length is
\* the sum of the lengths of the instructions.
C22_ResolutionKeepsOpcodes ==
    (Compiled /\ compiled.err = "none") =>
        /\ \A k \in 1..Len(comp.instructions) :
               compiled.bytes[comp.instructions[k].BytecodePosition + 1]
                   = comp.instructions[k].Opcode
        /\ Len(compiled.bytes) = Len(InstructionBytes(comp.instructions, 1))

\* ------------------------------------------------------------------------
\* The instructions of leaves and actions (SpecCompile)
\* ------------------------------------------------------------------------

RECURSIVE CondLeaves(_)
RECURSIVE CondListLeaves(_, _)
\* the leaves Compile visits in a condition, in the order of the visit
CondLeaves(cond) ==
    IF Len(cond.All) > 0 THEN CondListLeaves(cond.All, 1)
    ELSE IF Len(cond.Any) > 0 THEN CondListLeaves(cond.Any, 1)
    ELSE <<cond>>

CondListLeaves(list, i) ==
    IF i > Len(list) THEN <<>> ELSE CondLeaves(list[i]) \o CondListLeaves(list, i + 1)

RECURSIVE UnitLeaves(_, _)
\* the leaves of all rules of a unit, in the order of their compilation
UnitLeaves(rs, i) ==
    IF i > Len(rs) THEN <<>>
    ELSE CondListLeaves(rs[i].Conditions.All, 1) \o CondListLeaves(rs[i].Conditions.Any, 1)
         \o UnitLeaves(rs, i + 1)

\* the LOAD_CONST opcode of a value type
SpecLoadConst(vt) ==
    CASE vt = "int"    -> LOAD_CONST_INT
      [] vt = "float"  -> LOAD_CONST_FLOAT
      [] vt = "string" -> LOAD_CONST_STRING
      [] vt = "bool"   -> LOAD_CONST_BOOL
      [] OTHER         -> NOP

\* the comparison opcodes a leaf of value type vt with canonical operator op
\* may compile to
SpecComparisons(vt, op) ==
    CASE vt = "int" ->
             (CASE op = "equal" -> {EQ_INT} [] op = "notEqual" -> {NEQ_INT}
                [] op = "lessThan" -> {LT_INT} [] op = "lessThanOrEqual" -> {LTE_INT}
                [] op = "greaterThan" -> {GT_INT} [] op = "greaterThanOrEqual" -> {GTE_INT}
                [] OTHER -> {})
      [] vt = "float" ->
             (CASE op = "equal" -> {EQ_FLOAT} [] op = "notEqual" -> {NEQ_FLOAT}
                [] op = "lessThan" -> {LT_FLOAT} [] op = "lessThanOrEqual" -> {LTE_FLOAT}
                [] op = "greaterThan" -> {GT_FLOAT} [] op = "greaterThanOrEqual" -> {GTE_FLOAT}
                [] OTHER -> {})
      [] vt = "string" ->
             (CASE op = "equal" -> {EQ_STRING} [] op = "notEqual" -> {NEQ_STRING}
                [] OTHER -> {})
      [] vt = "bool" ->
             (CASE op = "equal" -> {EQ_INT, EQ_FLOAT, EQ_STRING}
                [] op = "notEqual" -> {NEQ_INT, NEQ_FLOAT, NEQ_STRING}
                [] OTHER -> {})
      [] OTHER -> {}

\* the positions of the LOAD_FACT instructions in the emitted instructions
LoadFactAt == SelectSeq([k \in 1..Len(comp.instructions) |-> k],
                        LAMBDA k : comp.instructions[k].Opcode = LOAD_FACT)

\* C23: in a compiled unit the emitted instructions hold, for the i-th leaf,
\* the i-th LOAD_FACT directly followed by the LOAD_CONST of the leaf's value
\* type, the comparison opcode of (value type, canonical operator) and one
\* conditional jump; no leaf has NOP or a comparison of another type.
C23_LeafQuadruple ==
    (Compiled /\ compiled.err = "none") =>
        LET leaves == UnitLeaves(rulesIn, 1)
            q      == comp.instructions
        IN  /\ Len(LoadFactAt) = Len(leaves)
            /\ \A i \in 1..Len(leaves) :
                 LET k == LoadFactAt[i]
                 IN  /\ k + 3 <= Len(q)
                     /\ q[k + 1].Opcode = SpecLoadConst(leaves[i].ValueType)
                     /\ q[k + 2].Opcode \in SpecComparisons(leaves[i].ValueType,
                                                          SpecCanonical(leaves[i].Operator))
                     /\ q[k + 3].Opcode \in {JUMP_IF_TRUE, JUMP_IF_FALSE}

RECURSIVE UpdateActionsOf(_, _, _)
\* the updateFact actions of one rule in order, each with its rank among them
UpdateActionsOf(acts, i, rank) ==
    IF i > Len(acts) THEN <<>>
    ELSE IF acts[i].Type = "updateFact"
        THEN <<[act |-> acts[i], rank |-> rank]>> \o UpdateActionsOf(acts, i + 1, rank + 1)
    ELSE UpdateActionsOf(acts, i + 1, rank)

RECURSIVE UnitUpdateActions(_, _)
\* the updateFact actions of all rules of a unit, in the order of compilation
UnitUpdateActions(rs, i) ==
    IF i > Len(rs) THEN <<>>
    ELSE UpdateActionsOf(rs[i].Actions, 1, 1) \o UnitUpdateActions(rs, i + 1)

\* the positions of the UPDATE_FACT instructions in the emitted instructions
UpdateFactAt == SelectSeq([k \in 1..Len(comp.instructions) |-> k],
                          LAMBDA k : comp.instructions[k].Opcode = UPDATE_FACT)

\* C24: a unit whose actions are updateFact actions on known facts compiles,
\* and for its i-th updateFact action the i-th UPDATE_FACT is directly
\* preceded by the LOAD_CONST of the type of the action's value; the pairs of
\* the actions of one rule follow each other, so each UPDATE_FACT has its own
\* value on top of the stack.
C24_LoadConstThenUpdateFact ==
    ( /\ Compiled
      /\ UnitFacts(rulesIn) \subseteq DOMAIN ctx
      /\ \A k \in 1..Len(AllActions(rulesIn, 1)) :
             AllActions(rulesIn, 1)[k].Type = "updateFact"
      /\ \A i \in 1..Len(rulesIn) : rulesIn[i].Conditions.Any = <<>> ) =>
        LET ups == UnitUpdateActions(rulesIn, 1)
            q   == comp.instructions
        IN  /\ compiled.err = "none"
            /\ Len(UpdateFactAt) = Len(ups)
            /\ \A i \in 1..Len(ups) :
                 LET k == UpdateFactAt[i]
                 IN  /\ k >= 2
                     /\ q[k - 1].Opcode = SpecLoadConst(SpecTypeOf(ups[i].act.Value, ""))
                     /\ ups[i].rank > 1 => UpdateFactAt[i - 1] = k - 2

\* the positions of the jump instructions in the emitted instructions
JumpAt == SelectSeq([k \in 1..Len(comp.instructions) |-> k],
                    LAMBDA k : IsJumpInstruction(comp.instructions[k]))

\* a unit of one rule whose conditions are a top-level any list of at least
\* two leaves, over facts of the context, with updateFact actions of bool
\* values
AnyListUnit ==
    /\ Len(rulesIn) = 1
    /\ rulesIn[1].Conditions.All = <<>>
    /\ Len(rulesIn[1].Conditions.Any) >= 2
    /\ \A i \in 1..Len(rulesIn[1].Conditions.Any) : IsLeaf(rulesIn[1].Conditions.Any[i])
    /\ \A k \in 1..Len(rulesIn[1].Actions) :
           /\ rulesIn[1].Actions[k].Type = "updateFact"
           /\ rulesIn[1].Actions[k].Value.gt = "bool"
    /\ UnitFacts(rulesIn) \subseteq DOMAIN ctx

\* C25: a rule with a top-level any list of n >= 2 leaves compiles; its
\* jumps are one per leaf, JUMP_IF_TRUE to the first instruction of the
\* action block for every leaf but the last and JUMP_IF_FALSE to the end of
\* the rule for the last leaf.
C25_AnyListJumps ==
    (Compiled /\ AnyListUnit) =>
        LET n == Len(rulesIn[1].Conditions.Any)
            q == comp.instructions
        IN  /\ compiled.err = "none"
            /\ Len(JumpAt) = n
            /\ \A i \in 1..n :
                 LET ins == q[JumpAt[i]]
                 IN  IF i < n
                       THEN /\ ins.Opcode = JUMP_IF_TRUE
                            /\ JumpTarget(ins) = q[JumpAt[n]].BytecodePosition + 3
                       ELSE /\ ins.Opcode = JUMP_IF_FALSE
                            /\ JumpTarget(ins) = Len(compiled.bytes)

\* ------------------------------------------------------------------------
\* Jumps in the VM (SpecVM)
\* ------------------------------------------------------------------------

\* the instruction to execute has two operand bytes in the bytecode
FetchingWithOperand == Fetching /\ vm.ip + 2 < Len(vm.bytecode)

\* the 2-byte little-endian signed operand of the instruction to execute
JumpOperand == Int16(LEValue(vm.bytecode, vm.ip + 1, 2))

\* C26: a step that executes JUMP with operand k continues at the position
\* after the operand plus k and leaves the stack alone; a step that executes
\* JUMP_IF_TRUE or JUMP_IF_FALSE with a bool on top of the stack pops it and
\* continues at the position after the operand, plus k when the bool is the
\* stated truth value.
C26_JumpRelativeToOperandEnd ==
    [][ FetchingWithOperand =>
          /\ Fetched = JUMP =>
                /\ vm'.status = "running"
                /\ vm'.ip = vm.ip + 3 + JumpOperand
                /\ vm'.stack = vm.stack
          /\ ( /\ Fetched \in {JUMP_IF_TRUE, JUMP_IF_FALSE}
               /\ Len(vm.stack) > 0
               /\ vm.stack[Len(vm.stack)].gt = "bool" ) =>
                /\ vm'.status = "running"
                /\ vm'.stack = SubSeq(vm.stack, 1, Len(vm.stack) - 1)
                /\ vm'.ip = IF vm.stack[Len(vm.stack)].b = (Fetched = JUMP_IF_TRUE)
                              THEN vm.ip + 3 + JumpOperand
                              ELSE vm.ip + 3
      ]_vars

\* ------------------------------------------------------------------------
\* SpecKey: conditionsKey is called on two rules whose condition trees
\* differ in the order of the elements of their lists only
\* ------------------------------------------------------------------------

\* elements of one list of a keyed tree
MaxKeyConds == 2

LeafT3 == Leaf("temperature", "greaterThan", Num(35), "int")
LeafF3 == Leaf("temperature", "greaterThanOrEqual", F64(71), "float")

KeyLeaves == {LeafT, LeafT3, LeafH, LeafO, LeafF, LeafF3}

KeyLists == SeqsUpTo(KeyLeaves, MaxKeyConds)

\* a list alone as all or as any, and a list nested one level down
KeyTrees ==
    { [All |-> l, Any |-> <<>>] : l \in KeyLists }
    \cup { [All |-> <<>>, Any |-> l] : l \in KeyLists }
    \cup { [All |-> <<LeafO, Block("bool", l, <<>>)>>, Any |-> <<>>] : l \in KeyLists }
    \cup { [All |-> <<Block("bool", <<>>, l), LeafH>>, Any |-> <<>>] : l \in KeyLists }

RECURSIVE ReorderList(_)
\* the lists that differ from list in the order of its elements and of the
\* elements of the lists nested in it
ReorderList(list) ==
    IF list = <<>> THEN {<<>>}
    ELSE LET n      == Len(list)
             var(i) == { [list[i] EXCEPT !.All = a, !.Any = b] :
                           a \in ReorderList(list[i].All), b \in ReorderList(list[i].Any) }
             elems  == { f \in [1..n -> UNION { var(i) : i \in 1..n }] :
                           \A i \in 1..n : f[i] \in var(i) }
         IN  { [i \in 1..n |-> f[p[i]]] : f \in elems, p \in Permutations(1..n) }

Reorderings(conds) ==
    { [All |-> a, Any |-> b] : a \in ReorderList(conds.All), b \in ReorderList(conds.Any) }

KeyRule(name, conds) == Rule(name, 0, conds.All, conds.Any, <<ActAc>>, <<>>, <<>>)

InitKey ==
    /\ pc = "key"
    /\ \E t \in KeyTrees : \E u \in Reorderings(t) :
          /\ Validated(KeyRule("R1", t))
          /\ Validated(KeyRule("R2", u))
          /\ rulesIn = <<KeyRule("R1", t), KeyRule("R2", u)>>
    /\ ruleHeap = <<>>
    /\ inSlice = <<>>
    /\ optOut = NoOutput
    /\ optOut2 = NoOutput
    /\ mode = "none"
    /\ ctx = EmptyMap
    /\ comp = NoCompiler
    /\ compiled = NoResult
    /\ factsIn = EmptyMap
    /\ vm = NoVM
    /\ fetched = {}
    /\ doc = NoDoc
    /\ parsed = NoParse

\* conditionsKey(rule.Conditions) on the next rule: the call sorts the
\* rule's lists in place, and its result is the hash of the serialization
\* of the lists as they are then; ruleHeap holds the rules keyed so far
DoConditionsKey ==
    /\ pc = "key"
    /\ Len(ruleHeap) < Len(rulesIn)
    /\ ruleHeap' = Append(ruleHeap,
                          [rulesIn[Len(ruleHeap) + 1] EXCEPT
                              !.Conditions = normalizeConditions(@)])
    /\ pc' = IF Len(ruleHeap') = Len(rulesIn) THEN "keyed" ELSE "key"
    /\ UNCHANGED <<rulesIn, inSlice, optOut, optOut2, mode, vmVars, parseVars>>

NextKey == DoConditionsKey

SpecKey == InitKey /\ [][NextKey]_vars

\* the key the call on the i-th rule returned
ReturnedKey(i) ==
    [all |-> jsonConditions(ruleHeap[i].Conditions.All),
     any |-> jsonConditions(ruleHeap[i].Conditions.Any)]

\* C27: two condition trees that differ only in the order of the elements
\* of their all and any lists, at any level, get the same key.
C27_KeyInvariantUnderReordering ==
    pc = "keyed" =>
        /\ ReturnedKey(1) = conditionsKey(rulesIn[1].Conditions)
        /\ ReturnedKey(2) = conditionsKey(rulesIn[2].Conditions)
        /\ ReturnedKey(1) = ReturnedKey(2)

\* ------------------------------------------------------------------------
\* OptimizeRules and its input (SpecOpt)
\* ------------------------------------------------------------------------

\* the rule objects the caller handed to the first call, as they are now
InputObjects == SubSeq(ruleHeap, 1, Len(rulesIn))

\* C28: after OptimizeRules the input rule objects are as they were before
\* the call (condition lists, actions, produced and consumed facts in the
\* same order), and a second call on the same list returns what the first
\* call returned.
C28_OptimizeLeavesInputAlone ==
    /\ pc \in {"optimized", "optimized2"} => InputObjects = rulesIn
    /\ (pc = "optimized2" /\ mode = "same") => optOut2.rules = optOut.rules

\* ------------------------------------------------------------------------
\* SpecRecompile: one Compiler instance gets several Compile calls
\* ------------------------------------------------------------------------

\* rules one Compiler instance compiles in its life
MaxCompiledRules == 3

\* a leaf on a fact that is not in the context
LeafName == Leaf("name", "equal", StrV("John"), "string")

\* units of one rule: two that compile, one that fails before anything is
\* emitted, two that fail after a leaf was emitted, one with a top-level any;
\* and a unit whose second rule fails after its first rule was compiled
ReUnits ==
    { <<Rule("R2", 0, <<LeafT, LeafO>>, <<>>, <<ActFan>>, <<"fan_status">>,
             <<"temperature", "room_occupied">>),
        Rule("R3", 0, <<LeafName>>, <<>>, <<ActAc>>, <<"ac_status">>, <<"name">>)>>, <<Rule("R1", 0, <<LeafT>>, <<>>, <<ActAc>>, <<"ac_status">>, <<"temperature">>)>>,
      <<Rule("R2", 0, <<LeafT, LeafO>>, <<>>, <<ActFan>>, <<"fan_status">>,
             <<"temperature", "room_occupied">>)>>,
      <<Rule("R3", 0, <<LeafName>>, <<>>, <<ActAc>>, <<"ac_status">>, <<"name">>)>>,
      <<Rule("R4", 0, <<LeafT, LeafName>>, <<>>, <<ActAc>>, <<"ac_status">>,
             <<"temperature", "name">>)>>,
      <<Rule("R5", 0, <<LeafT>>, <<>>, <<ActSend>>, <<>>, <<"temperature">>)>>,
      <<Rule("R6", 0, <<>>, <<LeafH, LeafO>>, <<ActAc>>, <<"ac_status">>,
             <<"humidity", "room_occupied">>)>> }

InitRecompile ==
    /\ pc = "compile"
    /\ rulesIn \in ReUnits
    /\ ctx = OptContext
    /\ comp = NewCompiler(ctx)
    /\ compiled = NoResult
    /\ factsIn = EmptyMap
    /\ vm = NoVM
    /\ fetched = {}
    /\ ruleHeap = <<>>
    /\ inSlice = <<>>
    /\ optOut = NoOutput
    /\ optOut2 = NoOutput
    /\ mode = "none"
    /\ doc = NoDoc
    /\ parsed = NoParse

\* a further Compile(rules) on the same Compiler, after a call that returned
DoCompileNext ==
    /\ pc \in {"loaded", "compile_failed"}
    /\ comp.err \in {"none", "error"}
    /\ comp.labelCounter \div 2 < MaxCompiledRules
    /\ \E rs \in ReUnits :
          /\ rulesIn' = rs
          /\ comp' = Compile(comp, rs)
    /\ compiled' = CompileResult(comp')
    /\ IF compiled'.err = "none"
         THEN /\ vm' = NewVM(compiled'.bytes)
              /\ pc' = "loaded"
         ELSE /\ vm' = vm
              /\ pc' = "compile_failed"
    /\ UNCHANGED <<ctx, factsIn, fetched, optVars, parseVars>>

NextRecompile == DoCompile \/ DoCompileNext

SpecRecompile == InitRecompile /\ [][NextRecompile]_vars

\* C29: a Compile call that fails returns no bytes, and a Compile call that
\* succeeds returns what a fresh Compiler with the same context returns for
\* the same rules, whatever calls the instance got before.
C29_CompileIndependentOfEarlierCalls ==
    /\ pc = "compile_failed" => compiled.bytes = <<>>
    /\ pc = "loaded" =>
          /\ CompileResult(Compile(NewCompiler(ctx), rulesIn)).err = "none"
          /\ compiled.bytes = CompileResult(Compile(NewCompiler(ctx), rulesIn)).bytes

\* ------------------------------------------------------------------------
\* The leaves of the rule ParseRule returns (SpecParse)
\* ------------------------------------------------------------------------

RECURSIVE LeavesOf(_)
\* the leaves of a condition list, at any depth
LeavesOf(list) ==
    UNION { (IF IsLeaf(list[i]) THEN {list[i]} ELSE {})
            \cup LeavesOf(list[i].All) \cup LeavesOf(list[i].Any) : i \in 1..Len(list) }

CanonicalOperators ==
    {"equal", "notEqual", "lessThan", "lessThanOrEqual", "greaterThan",
     "greaterThanOrEqual", "contains", "notContains"}

\* C30: every leaf of a rule ParseRule returned has a valueType of int,
\* float, string or bool that is the type of its value, and a canonical
\* operator name.
C30_ReturnedLeavesCanonical ==
    (pc = "parsed" /\ parsed.err = "none") =>
        \A leaf \in LeavesOf(parsed.rule[1].Conditions.All)
                      \cup LeavesOf(parsed.rule[1].Conditions.Any) :
            /\ leaf.ValueType \in {"int", "float", "string", "bool"}
            /\ leaf.ValueType = SpecTypeOf(leaf.Value, leaf.ValueType)
            /\ leaf.Operator \in CanonicalOperators

====
